---- MODULE Spec2Model ----
(***************************************************************************)
(* Reminder scheduling engine of reminders-bun: the scheduler helpers      *)
(* (event-time resolver, alert selector, deactivation policy), the polling *)
(* orchestrator checkReminders and the QStash webhook handler              *)
(* webhookReminderAlertRoute, over the reminders table.                    *)
(*                                                                         *)
(* Instants are milliseconds since the epoch.  Each await of the source    *)
(* is a point where another task may run, so every handler is cut into one *)
(* action per synchronous stretch.                                         *)
(***************************************************************************)
EXTENDS Integers, Sequences, FiniteSets, Bags, TLC

VARIABLES
  reminders,   \* the reminders table: id -> row
  clock,       \* the wall clock read by new Date()
  env,         \* process.env: USE_POLLING and QSTASH_TOKEN
  cycle,       \* bag of the executions of checkReminders started by setInterval
  hook,        \* bag of the executions of webhookReminderAlertRoute
  qstash,      \* callbacks registered with QStash and not yet delivered
  dispatched,  \* bag of notification dispatches (calls of sendNotifications)
  call         \* one application of a scheduler helper to given arguments

vars == <<reminders, clock, env, cycle, hook, qstash, dispatched, call>>

----------------------------------------------------------------------------
(* Bounds of the model *)

MaxReminders == 1      \* rows in the reminders table
MaxCycles == 2         \* firings of the polling timer in a run
MaxHooks == 2          \* webhook requests received in a run
MaxClockSteps == 3     \* the clock runs from 0 to MaxClockSteps * ClockStep

(* Program constants *)

NULL == -1             \* SQL NULL / JavaScript null of an instant column
NO_RECURRENCE == "null"

STALE_THRESHOLD_MS == 60 * 60 * 1000
INTERVAL_MS == 3000

ClockStep == STALE_THRESHOLD_MS \div 2
Hour == 2 * ClockStep

Ids == 1..MaxReminders

----------------------------------------------------------------------------
(* Recurrence evaluator: cron-parser's parse(expr, {currentDate}).next().  *)
(* "0 * * * *" matches the start of every hour, "0 */2 * * *" the start of *)
(* every second hour; any other string used here does not parse.           *)

HOURLY == "0 * * * *"
TWO_HOURLY == "0 */2 * * *"
NOT_A_CRON == "not a cron"

cronPeriod(recurrence) ==
  IF recurrence = HOURLY THEN Hour
  ELSE IF recurrence = TWO_HOURLY THEN 2 * Hour
  ELSE NULL

\* earliest matching instant at or after now
cronNext_inclusive(recurrence, now) ==
  ((now + cronPeriod(recurrence) - 1) \div cronPeriod(recurrence))
    * cronPeriod(recurrence)

\* earliest matching instant strictly after now
cronNext(recurrence, now) ==
  ((now \div cronPeriod(recurrence)) + 1) * cronPeriod(recurrence)

\* the instants the expression matches
cronMatches(recurrence, t) == t % cronPeriod(recurrence) = 0

\* the resolver never answering an instant in the past
calculateNextEventTime_notPast(reminder, now) ==
  IF reminder.is_recurring /\ reminder.recurrence # NO_RECURRENCE
    THEN IF cronPeriod(reminder.recurrence) # NULL
           THEN cronNext(reminder.recurrence, now)
           ELSE NULL
    ELSE IF reminder.date < now THEN now ELSE reminder.date

\* the resolver iterating from the reminder's date instead of now
calculateNextEventTime_fromDate(reminder, now) ==
  IF reminder.is_recurring /\ reminder.recurrence # NO_RECURRENCE
    THEN IF cronPeriod(reminder.recurrence) # NULL
           THEN cronNext(reminder.recurrence, reminder.date)
           ELSE NULL
    ELSE reminder.date

calculateNextEventTime(reminder, now) ==
  IF reminder.is_recurring /\ reminder.recurrence # NO_RECURRENCE
    THEN IF cronPeriod(reminder.recurrence) # NULL
           THEN cronNext(reminder.recurrence, now)
           ELSE NULL
    ELSE reminder.date

----------------------------------------------------------------------------
(* Alert selector *)

hasAlreadyAlertedForEvent_strict(reminder, alertTime) ==
  IF ~reminder.is_recurring THEN FALSE
  ELSE IF reminder.last_alert_time # NULL
    THEN reminder.last_alert_time > alertTime
    ELSE FALSE

hasAlreadyAlertedForEvent(reminder, alertTime) ==
  IF ~reminder.is_recurring THEN FALSE
  ELSE IF reminder.last_alert_time # NULL
    THEN reminder.last_alert_time >= alertTime
    ELSE FALSE

\* the window with its upper boundary included
isDue_inclusive(alert, eventTime, now) ==
  LET alertTime == eventTime - alert.time
      diff == now - alertTime
  IN diff >= 0 /\ diff <= STALE_THRESHOLD_MS

\* the window of one evaluation interval
isDue_interval(alert, eventTime, now) ==
  LET alertTime == eventTime - alert.time
      diff == now - alertTime
  IN diff >= 0 /\ diff < INTERVAL_MS

\* the condition of the if in the loop body: due and not stale
isDue(alert, eventTime, now) ==
  LET alertTime == eventTime - alert.time
      diff == now - alertTime
  IN diff >= 0 /\ diff < STALE_THRESHOLD_MS

\* the for loop of getAlertsToFire from position i, with its continue and break
RECURSIVE alertsLoop(_, _, _, _)
alertsLoop(reminder, eventTime, now, i) ==
  IF i > Len(reminder.alerts) THEN <<>>
  ELSE LET alert == reminder.alerts[i]
           alertTime == eventTime - alert.time
       IN IF isDue(alert, eventTime, now)
            THEN IF hasAlreadyAlertedForEvent(reminder, alertTime)
                   THEN alertsLoop(reminder, eventTime, now, i + 1)
                   ELSE <<alert>>
            ELSE alertsLoop(reminder, eventTime, now, i + 1)

\* the loop without its break: every due, not yet alerted alert is pushed
RECURSIVE alertsLoop_nobreak(_, _, _, _)
alertsLoop_nobreak(reminder, eventTime, now, i) ==
  IF i > Len(reminder.alerts) THEN <<>>
  ELSE LET alert == reminder.alerts[i]
           alertTime == eventTime - alert.time
           rest == alertsLoop_nobreak(reminder, eventTime, now, i + 1)
       IN IF isDue(alert, eventTime, now)
               /\ ~hasAlreadyAlertedForEvent(reminder, alertTime)
            THEN <<alert>> \o rest
            ELSE rest

getAlertsToFire_nobreak(reminder, eventTime, now, intervalMs) ==
  alertsLoop_nobreak(reminder, eventTime, now, 1)

\* the loop scanning the list from its end
getAlertsToFire_last(reminder, eventTime, now, intervalMs) ==
  LET all == alertsLoop_nobreak(reminder, eventTime, now, 1)
  IN IF all = <<>> THEN <<>> ELSE <<all[Len(all)]>>

getAlertsToFire(reminder, eventTime, now, intervalMs) ==
  alertsLoop(reminder, eventTime, now, 1)

----------------------------------------------------------------------------
(* Deactivation policy *)

\* the policy without its first test: only staleness deactivates
shouldDeactivateOneTime_staleOnly(reminder, now) ==
  LET timePastDue == now - reminder.date
  IN IF timePastDue > STALE_THRESHOLD_MS
       THEN [shouldDeactivate |-> TRUE, reason |-> "missed (>1 hour stale)"]
       ELSE [shouldDeactivate |-> FALSE, reason |-> "none"]

\* the policy with the staleness boundary included
shouldDeactivateOneTime_inclusive(reminder, now) ==
  IF reminder.last_alert_time # NULL
    THEN [shouldDeactivate |-> TRUE,
          reason |-> "one-time reminder has already alerted"]
    ELSE LET timePastDue == now - reminder.date
         IN IF timePastDue >= STALE_THRESHOLD_MS
              THEN [shouldDeactivate |-> TRUE, reason |-> "missed (>1 hour stale)"]
              ELSE [shouldDeactivate |-> FALSE, reason |-> "none"]

\* the policy without its staleness test: only the alert history deactivates
shouldDeactivateOneTime_alertedOnly(reminder, now) ==
  IF reminder.last_alert_time # NULL
    THEN [shouldDeactivate |-> TRUE,
          reason |-> "one-time reminder has already alerted"]
    ELSE [shouldDeactivate |-> FALSE, reason |-> "none"]

shouldDeactivateOneTime(reminder, now) ==
  IF reminder.last_alert_time # NULL
    THEN [shouldDeactivate |-> TRUE,
          reason |-> "one-time reminder has already alerted"]
    ELSE LET timePastDue == now - reminder.date
         IN IF timePastDue > STALE_THRESHOLD_MS
              THEN [shouldDeactivate |-> TRUE, reason |-> "missed (>1 hour stale)"]
              ELSE [shouldDeactivate |-> FALSE, reason |-> "none"]

\* the policy with the end_date boundary included
shouldDeactivateRecurring_inclusive(reminder, nextEventTime) ==
  IF reminder.recurrence = NO_RECURRENCE
    THEN [shouldDeactivate |-> FALSE, reason |-> "none"]
    ELSE IF reminder.end_date # NULL /\ nextEventTime >= reminder.end_date
      THEN [shouldDeactivate |-> TRUE, reason |-> "next occurrence exceeds end_date"]
      ELSE [shouldDeactivate |-> FALSE, reason |-> "none"]

\* the policy without its guard on recurrence
shouldDeactivateRecurring_noGuard(reminder, nextEventTime) ==
  IF reminder.end_date # NULL /\ nextEventTime > reminder.end_date
    THEN [shouldDeactivate |-> TRUE, reason |-> "next occurrence exceeds end_date"]
    ELSE [shouldDeactivate |-> FALSE, reason |-> "none"]

shouldDeactivateRecurring(reminder, nextEventTime) ==
  IF reminder.recurrence = NO_RECURRENCE
    THEN [shouldDeactivate |-> FALSE, reason |-> "none"]
    ELSE IF reminder.end_date # NULL /\ nextEventTime > reminder.end_date
      THEN [shouldDeactivate |-> TRUE, reason |-> "next occurrence exceeds end_date"]
      ELSE [shouldDeactivate |-> FALSE, reason |-> "none"]

checkDeactivation(reminder, eventTime, now) ==
  IF reminder.is_recurring /\ reminder.recurrence # NO_RECURRENCE
    THEN shouldDeactivateRecurring(reminder, eventTime)
    ELSE shouldDeactivateOneTime(reminder, now)

----------------------------------------------------------------------------
(* Rows of the reminders table *)

\* alerts: the ordered list of {id, time}; ids are the list positions
mkAlerts(offsets) ==
  [i \in 1..Len(offsets) |-> [id |-> ToString(i), time |-> offsets[i]]]

SeqsUpTo(S, n) == UNION {[1..k -> S] : k \in 0..n}

\* a reminder as createReminderRoute stores it: active, never alerted
newReminder(rec, cron, end, offsets) ==
  [id |-> 0, date |-> Hour, is_recurring |-> rec, recurrence |-> cron,
   start_date |-> IF rec THEN 0 ELSE NULL, end_date |-> end,
   alerts |-> mkAlerts(offsets), reminders |-> <<"email">>,
   last_alert_time |-> NULL, is_active |-> TRUE]

OneTimeReminders ==
  { newReminder(FALSE, NO_RECURRENCE, NULL, offs) :
      offs \in {<<>>, <<Hour, ClockStep>>} }

RecurringReminders ==
  { newReminder(TRUE, HOURLY, NULL, <<ClockStep>>),
    newReminder(TRUE, HOURLY, Hour, <<Hour, ClockStep>>),
    newReminder(TRUE, NOT_A_CRON, NULL, <<ClockStep>>) }

NewReminders == OneTimeReminders \cup RecurringReminders

NoRow == [id |-> 0]

\* no helper is being applied
NoCall == [fn |-> "none"]

\* SELECT * FROM reminders
findAll == reminders

\* SELECT * FROM reminders WHERE id = ?
findById(id) == IF id \in DOMAIN reminders THEN reminders[id] ELSE NoRow

----------------------------------------------------------------------------
(* Scheduling at start-up and at creation *)

\* index.ts: the polling timer is installed iff USE_POLLING or no QSTASH_TOKEN
pollingEnabled == env.USE_POLLING \/ ~env.QSTASH_TOKEN

\* the callbacks createReminderRoute registers for reminder r at instant now:
\* one per alert whose instant date - alert.time is still in the future
alertCallbacks(r, now) ==
  { [reminderId |-> r.id, alertTime |-> r.date - r.alerts[n].time,
     isRecurring |-> FALSE, alert |-> r.alerts[n].id,
     notBefore |-> r.date - r.alerts[n].time] :
      n \in {k \in 1..Len(r.alerts) : r.date - r.alerts[k].time > now} }

\* the deliveries of the cron schedule scheduleRecurringReminder creates for
\* r, at instant t
cronCallbacks(r, t) ==
  IF /\ r.is_recurring
     /\ r.recurrence # NO_RECURRENCE
     /\ cronPeriod(r.recurrence) # NULL
     /\ t % cronPeriod(r.recurrence) = 0
    THEN {[reminderId |-> r.id, alertTime |-> NULL, isRecurring |-> TRUE,
           alert |-> "cron", notBefore |-> t]}
    ELSE {}

----------------------------------------------------------------------------
(* State after start-up, with the reminders created at instant 0 *)

\* an execution that has not started yet, and one that has returned
IdleCycle == [pc |-> "idle", reminders |-> <<>>, now |-> NULL, i |-> 0]
DoneCycle == [IdleCycle EXCEPT !.pc = "done"]
\* code is set.status, which Elysia answers with: 200 unless the handler sets it
IdleHook == [pc |-> "idle", payload |-> NoRow, reminder |-> NoRow, time |-> NULL,
             reason |-> "none", status |-> "none", code |-> 200]
\* a handler that has returned { status: "ok" } or { status: "skipped", reason }
returned(reason) ==
  [IdleHook EXCEPT !.pc = "done", !.reason = reason,
                   !.status = IF reason = "ok" THEN "ok" ELSE "skipped"]

Init ==
  /\ clock = 0
  /\ env \in {e \in [USE_POLLING : BOOLEAN, QSTASH_TOKEN : BOOLEAN] :
                e.USE_POLLING \/ e.QSTASH_TOKEN}
  /\ reminders \in { [id \in Ids |-> [f[id] EXCEPT !.id = id]] :
                        f \in [Ids -> NewReminders] }
  /\ qstash = IF env.QSTASH_TOKEN
                THEN UNION {alertCallbacks(reminders[id], 0) : id \in Ids}
                ELSE {}
  /\ cycle = EmptyBag
  /\ hook = EmptyBag
  /\ dispatched = EmptyBag
  /\ call = NoCall

----------------------------------------------------------------------------
(* Polling mode: setInterval(checkReminders, SCHEDULER_INTERVAL).           *)
(* An execution is suspended only where it awaits storage or a transport:  *)
(* the code between two such awaits runs as one step.                      *)

Running == {x \in BagToSet(cycle) : x.pc # "done"}

\* the executions B with execution x replaced by what it has become, y
become(B, x, y) == (B (-) SetToBag({x})) (+) SetToBag({y})

\* processReminder without the return on a null event time
processReminder_noNullCheck(reminder, now) ==
  LET eventTime == calculateNextEventTime(reminder, now)
      none == [await |-> "return", eventTime |-> NULL, alertsToFire |-> <<>>]
  IN IF ~reminder.is_active THEN none
     ELSE IF Len(reminder.alerts) = 0 THEN none
     ELSE IF checkDeactivation(reminder, eventTime, now).shouldDeactivate
       THEN [none EXCEPT !.await = "deactivateReminder", !.eventTime = eventTime]
     ELSE LET alertsToFire == getAlertsToFire(reminder, eventTime, now, INTERVAL_MS)
          IN IF Len(alertsToFire) > 0
               THEN [await |-> "sendNotifications", eventTime |-> eventTime,
                     alertsToFire |-> alertsToFire]
               ELSE [none EXCEPT !.eventTime = eventTime]

\* the synchronous part of processReminder(reminder, now): what it goes on to
\* await, with the event time and the alerts it computed
processReminder_active(reminder, now) ==
  LET eventTime == calculateNextEventTime(reminder, now)
      none == [await |-> "return", eventTime |-> NULL, alertsToFire |-> <<>>]
  IN IF Len(reminder.alerts) = 0 THEN none
     ELSE IF eventTime = NULL THEN none
     ELSE IF checkDeactivation(reminder, eventTime, now).shouldDeactivate
       THEN [none EXCEPT !.await = "deactivateReminder", !.eventTime = eventTime]
     ELSE LET alertsToFire == getAlertsToFire(reminder, eventTime, now, INTERVAL_MS)
          IN IF Len(alertsToFire) > 0
               THEN [await |-> "sendNotifications", eventTime |-> eventTime,
                     alertsToFire |-> alertsToFire]
               ELSE [none EXCEPT !.eventTime = eventTime]

processReminder(reminder, now) ==
  LET eventTime == calculateNextEventTime(reminder, now)
      none == [await |-> "return", eventTime |-> NULL, alertsToFire |-> <<>>]
  IN IF ~reminder.is_active THEN none
     ELSE IF Len(reminder.alerts) = 0 THEN none
     ELSE IF eventTime = NULL THEN none
     ELSE IF checkDeactivation(reminder, eventTime, now).shouldDeactivate
       THEN [none EXCEPT !.await = "deactivateReminder", !.eventTime = eventTime]
     ELSE LET alertsToFire == getAlertsToFire(reminder, eventTime, now, INTERVAL_MS)
          IN IF Len(alertsToFire) > 0
               THEN [await |-> "sendNotifications", eventTime |-> eventTime,
                     alertsToFire |-> alertsToFire]
               ELSE [none EXCEPT !.eventTime = eventTime]

\* one call of sendNotifications, as (reminder, occurrence, alert)
dispatch(via, reminderId, eventTime, alert) ==
  [via |-> via, reminderId |-> reminderId, eventTime |-> eventTime, alert |-> alert]

\* the for loop of checkReminders from the i-th reminder read: the position
\* of the first reminder whose processReminder awaits, 0 if the loop ends
RECURSIVE checkRemindersLoop(_, _, _)
checkRemindersLoop(rs, now, i) ==
  IF i > Len(rs) THEN 0
  ELSE IF processReminder(rs[i], now).await # "return" THEN i
  ELSE checkRemindersLoop(rs, now, i + 1)

\* the execution after the loop has run from position i up to its next await
resume(rs, now, i) ==
  LET j == checkRemindersLoop(rs, now, i)
  IN IF j = 0 THEN DoneCycle
     ELSE [pc |-> processReminder(rs[j], now).await, reminders |-> rs,
           now |-> now, i |-> j]

\* the notifications the execution x has just started to send, if any
sent(x) ==
  IF x.pc = "sendNotifications"
    THEN LET p == processReminder(x.reminders[x.i], x.now)
         IN SetToBag({dispatch("poll", x.reminders[x.i].id, p.eventTime,
                               p.alertsToFire[1].id)})
    ELSE EmptyBag

\* the UPDATE without its WHERE clause
deactivate_everyRow(id) ==
  [j \in DOMAIN reminders |-> [reminders[j] EXCEPT !.is_active = FALSE]]

\* repo.deactivate(id): UPDATE reminders SET is_active = 0 WHERE id = ?
deactivate(id) ==
  IF id \in DOMAIN reminders
    THEN [reminders EXCEPT ![id].is_active = FALSE]
    ELSE reminders

\* repo.updateLastAlertTime(id, time)
updateLastAlertTime(id, time) ==
  IF id \in DOMAIN reminders
    THEN [reminders EXCEPT ![id].last_alert_time = time]
    ELSE reminders

\* the timer fires: checkReminders is called and the storage answers the
\* query of getReminders()
Tick ==
  /\ pollingEnabled
  /\ BagCardinality(cycle) < MaxCycles
  /\ cycle' = cycle (+) SetToBag({[IdleCycle EXCEPT !.pc = "getReminders",
                                                    !.reminders = findAll]})
  /\ UNCHANGED <<reminders, clock, env, hook, qstash, dispatched, call>>

\* checkReminders resumes: const now = new Date(), and the loop runs up to
\* the first await of a processReminder
GetReminders(x) ==
  /\ x.pc = "getReminders"
  /\ LET y == resume(x.reminders, clock, 1)
     IN /\ cycle' = become(cycle, x, y)
        /\ dispatched' = dispatched (+) sent(y)
  /\ UNCHANGED <<reminders, clock, env, hook, qstash, call>>

\* await deactivateReminder(reminder.id) completes and the loop runs on
DeactivateReminder(x) ==
  /\ x.pc = "deactivateReminder"
  /\ reminders' = deactivate(x.reminders[x.i].id)
  /\ LET y == resume(x.reminders, x.now, x.i + 1)
     IN /\ cycle' = become(cycle, x, y)
        /\ dispatched' = dispatched (+) sent(y)
  /\ UNCHANGED <<clock, env, hook, qstash, call>>

\* the cycle writing the instant of the write instead of its own now
UpdateLastAlertTime_atWrite(x) ==
  /\ x.pc = "sendNotifications"
  /\ reminders' = updateLastAlertTime(x.reminders[x.i].id, clock)
  /\ LET y == resume(x.reminders, x.now, x.i + 1)
     IN /\ cycle' = become(cycle, x, y)
        /\ dispatched' = dispatched (+) sent(y)
  /\ UNCHANGED <<clock, env, hook, qstash, call>>

\* await sendNotifications completes, await updateLastAlertTime(id, now)
\* completes and the loop runs on
UpdateLastAlertTime(x) ==
  /\ x.pc = "sendNotifications"
  /\ reminders' = updateLastAlertTime(x.reminders[x.i].id, x.now)
  /\ LET y == resume(x.reminders, x.now, x.i + 1)
     IN /\ cycle' = become(cycle, x, y)
        /\ dispatched' = dispatched (+) sent(y)
  /\ UNCHANGED <<clock, env, hook, qstash, call>>

----------------------------------------------------------------------------
(* Webhook mode: POST /webhooks/reminder-alert *)

Handling == {y \in BagToSet(hook) : y.pc # "done"}

\* a handler that has set an error status and returned { error }
failed(code, error) ==
  [IdleHook EXCEPT !.pc = "done", !.reason = error, !.status = "error",
                   !.code = code]

\* the handler answering 404 for a reminder that is gone
Webhook_notFound404(m) ==
  /\ clock >= m.notBefore
  /\ BagCardinality(hook) < MaxHooks
  /\ qstash' = qstash \ {m}
  /\ LET reminder == findById(m.reminderId)
         y == [IdleHook EXCEPT !.payload = m, !.reminder = reminder]
     IN IF reminder = NoRow
          THEN /\ hook' = hook (+) SetToBag({failed(404, "Reminder not found")})
               /\ UNCHANGED dispatched
        ELSE IF ~reminder.is_active
          THEN /\ hook' = hook (+) SetToBag({returned("inactive")})
               /\ UNCHANGED dispatched
          ELSE /\ hook' = hook (+) SetToBag({[y EXCEPT !.pc = "sendNotifications"]})
               /\ dispatched' = dispatched (+) SetToBag({dispatch("webhook",
                                  reminder.id,
                                  IF m.isRecurring THEN m.notBefore ELSE reminder.date,
                                  m.alert)})
  /\ UNCHANGED <<reminders, clock, env, cycle, call>>

\* QStash delivers a callback that is due and the handler reads the reminder:
\* a missing or inactive one is skipped, otherwise sendNotifications is called
Webhook(m) ==
  /\ clock >= m.notBefore
  /\ BagCardinality(hook) < MaxHooks
  /\ qstash' = qstash \ {m}
  /\ LET reminder == findById(m.reminderId)
         y == [IdleHook EXCEPT !.payload = m, !.reminder = reminder]
     IN IF reminder = NoRow
          THEN /\ hook' = hook (+) SetToBag({returned("reminder_not_found")})
               /\ UNCHANGED dispatched
        ELSE IF ~reminder.is_active
          THEN /\ hook' = hook (+) SetToBag({returned("inactive")})
               /\ UNCHANGED dispatched
          ELSE /\ hook' = hook (+) SetToBag({[y EXCEPT !.pc = "sendNotifications"]})
               /\ dispatched' = dispatched (+) SetToBag({dispatch("webhook",
                                  reminder.id,
                                  IF m.isRecurring THEN m.notBefore ELSE reminder.date,
                                  m.alert)})
  /\ UNCHANGED <<reminders, clock, env, cycle, call>>

\* sendNotifications completes; updateLastAlertTime(id, new Date()) is called
SendNotifications(y) ==
  /\ y.pc = "sendNotifications"
  /\ hook' = become(hook, y, [y EXCEPT !.pc = "updateLastAlertTime", !.time = clock])
  /\ UNCHANGED <<reminders, clock, env, cycle, qstash, dispatched, call>>

\* the handler deciding on the payload's flag alone
webhookDeactivates_payloadOnly(payload, reminder) ==
  ~payload.isRecurring

\* whether the handler deactivates the reminder after the alert
webhookDeactivates(payload, reminder) ==
  ~payload.isRecurring /\ ~reminder.is_recurring

\* the write of last_alert_time completes; for a one-time reminder
\* deactivateReminder is called
HookUpdateLastAlertTime(y) ==
  /\ y.pc = "updateLastAlertTime"
  /\ reminders' = updateLastAlertTime(y.reminder.id, y.time)
  /\ hook' = become(hook, y,
                IF webhookDeactivates(y.payload, y.reminder)
                  THEN [y EXCEPT !.pc = "deactivateReminder"]
                  ELSE returned("ok"))
  /\ UNCHANGED <<clock, env, cycle, qstash, dispatched, call>>

\* the write of is_active completes and the handler returns
HookDeactivateReminder(y) ==
  /\ y.pc = "deactivateReminder"
  /\ reminders' = deactivate(y.reminder.id)
  /\ hook' = become(hook, y, returned("ok"))
  /\ UNCHANGED <<clock, env, cycle, qstash, dispatched, call>>

----------------------------------------------------------------------------
(* Time passes; the cron schedules of recurring reminders come due *)

Advance ==
  /\ clock + ClockStep <= MaxClockSteps * ClockStep
  /\ clock' = clock + ClockStep
  /\ qstash' = IF env.QSTASH_TOKEN
                 THEN qstash \cup
                        UNION {cronCallbacks(reminders[id], clock') : id \in DOMAIN reminders}
                 ELSE qstash
  /\ UNCHANGED <<reminders, env, cycle, hook, dispatched, call>>

Next ==
  \/ Tick
  \/ \E x \in BagToSet(cycle) : GetReminders(x)
  \/ \E x \in BagToSet(cycle) : DeactivateReminder(x)
  \/ \E x \in BagToSet(cycle) : UpdateLastAlertTime(x)
  \/ \E m \in qstash : Webhook(m)
  \/ \E y \in BagToSet(hook) : SendNotifications(y)
  \/ \E y \in BagToSet(hook) : HookUpdateLastAlertTime(y)
  \/ \E y \in BagToSet(hook) : HookDeactivateReminder(y)
  \/ Advance

Spec == Init /\ [][Next]_vars

----------------------------------------------------------------------------
(* Recurring reminders with a window: start_date and end_date are stored    *)
(* as given, and both modes run on reminders whose window is narrower than  *)
(* the run                                                                  *)

\* a recurring reminder as createReminderRoute stores it, with its window
windowed(start, end, offsets) ==
  [newReminder(TRUE, HOURLY, end, offsets) EXCEPT !.start_date = start]

\* one whose window closes before the first occurrence, one whose window
\* opens after it, and a one-time reminder
BoundedReminders ==
  { windowed(0, ClockStep, <<Hour>>),
    windowed(2 * Hour, NULL, <<ClockStep>>),
    newReminder(FALSE, NO_RECURRENCE, NULL, <<Hour, ClockStep>>) }

InitRecurrence ==
  /\ clock = 0
  /\ env \in {e \in [USE_POLLING : BOOLEAN, QSTASH_TOKEN : BOOLEAN] :
                e.USE_POLLING \/ e.QSTASH_TOKEN}
  /\ reminders \in { [id \in Ids |-> [f[id] EXCEPT !.id = id]] :
                        f \in [Ids -> BoundedReminders] }
  /\ qstash = IF env.QSTASH_TOKEN
                THEN UNION {alertCallbacks(reminders[id], 0) : id \in Ids}
                ELSE {}
  /\ cycle = EmptyBag
  /\ hook = EmptyBag
  /\ dispatched = EmptyBag
  /\ call = NoCall

SpecRecurrence == InitRecurrence /\ [][Next]_vars

----------------------------------------------------------------------------
(* Webhook mode alone: QStash delivers the callbacks, no timer polls, and   *)
(* the owner may delete a reminder (DELETE /reminders/:id), which leaves    *)
(* its callbacks registered with QStash                                     *)

InitWebhook ==
  /\ Init
  /\ env = [USE_POLLING |-> FALSE, QSTASH_TOKEN |-> TRUE]

\* deleteReminderRoute: repo.delete(id), DELETE FROM reminders WHERE id = ?
DeleteReminder(id) ==
  /\ id \in DOMAIN reminders
  /\ reminders' = [j \in DOMAIN reminders \ {id} |-> reminders[j]]
  /\ UNCHANGED <<clock, env, cycle, hook, qstash, dispatched, call>>

\* repo.update(id, data): UPDATE reminders SET <the fields data defines>
update(id, data) ==
  IF id \in DOMAIN reminders
    THEN [reminders EXCEPT ![id] =
            [f \in DOMAIN @ |-> IF f \in DOMAIN data THEN data[f] ELSE @[f]]]
    ELSE reminders

\* updateReminderRoute (PUT /reminders/:id) with body data: the row is
\* rewritten, nothing is registered with or withdrawn from QStash
UpdateReminder(id, data) ==
  /\ id \in DOMAIN reminders
  /\ reminders' = update(id, data)
  /\ UNCHANGED <<clock, env, cycle, hook, qstash, dispatched, call>>

\* the owner's edit in webhook mode: a recurring reminder is made one-time
WebhookUpdateBodies == {[is_recurring |-> FALSE, recurrence |-> NO_RECURRENCE]}

NextWebhook ==
  \/ \E m \in qstash : Webhook(m)
  \/ \E y \in BagToSet(hook) : SendNotifications(y)
  \/ \E y \in BagToSet(hook) : HookUpdateLastAlertTime(y)
  \/ \E y \in BagToSet(hook) : HookDeactivateReminder(y)
  \/ \E id \in Ids : DeleteReminder(id)
  \/ \E id \in Ids, data \in WebhookUpdateBodies : UpdateReminder(id, data)
  \/ Advance

SpecWebhook == InitWebhook /\ [][NextWebhook]_vars

----------------------------------------------------------------------------
(* Webhook mode with redelivery: the callbacks are registered with          *)
(* retries: 3, so QStash sends a callback again when it has no answer yet   *)
(* (a slow or failed response); the handler runs again on the same payload  *)

\* QStash delivers a callback that is due and keeps it for a retry: the
\* handler runs as for any delivery
WebhookRetried(m) ==
  /\ clock >= m.notBefore
  /\ BagCardinality(hook) < MaxHooks
  /\ qstash' = qstash
  /\ LET reminder == findById(m.reminderId)
         y == [IdleHook EXCEPT !.payload = m, !.reminder = reminder]
     IN IF reminder = NoRow
          THEN /\ hook' = hook (+) SetToBag({returned("reminder_not_found")})
               /\ UNCHANGED dispatched
        ELSE IF ~reminder.is_active
          THEN /\ hook' = hook (+) SetToBag({returned("inactive")})
               /\ UNCHANGED dispatched
          ELSE /\ hook' = hook (+) SetToBag({[y EXCEPT !.pc = "sendNotifications"]})
               /\ dispatched' = dispatched (+) SetToBag({dispatch("webhook",
                                  reminder.id,
                                  IF m.isRecurring THEN m.notBefore ELSE reminder.date,
                                  m.alert)})
  /\ UNCHANGED <<reminders, clock, env, cycle, call>>

NextRedelivery ==
  \/ \E m \in qstash : Webhook(m)
  \/ \E m \in qstash : WebhookRetried(m)
  \/ \E y \in BagToSet(hook) : SendNotifications(y)
  \/ \E y \in BagToSet(hook) : HookUpdateLastAlertTime(y)
  \/ \E y \in BagToSet(hook) : HookDeactivateReminder(y)
  \/ Advance

SpecRedelivery == InitWebhook /\ [][NextRedelivery]_vars

----------------------------------------------------------------------------
(* The owner's operations on the table: POST /reminders and                 *)
(* PUT /reminders/:id, with request bodies drawn from small sets           *)

CrudRows == 2          \* reminders the owner creates in a run

\* the fields of a body that bear on recurrence and activity; in a body for
\* POST every field has a value (the schema's defaults fill in null)
CreateBodies ==
  [is_recurring : BOOLEAN, recurrence : {NO_RECURRENCE, HOURLY},
   start_date : {NULL, 0}, is_active : BOOLEAN]

\* a body for PUT defines any of these fields, or none of them
UpdateBodies ==
  { [f \in F |-> r[f]] :
      r \in CreateBodies,
      F \in SUBSET {"is_recurring", "recurrence", "start_date", "is_active"} }

\* createReminderRoute's validation: the body is answered with 400
createRejects(r) ==
  r.is_recurring /\ (r.recurrence = NO_RECURRENCE \/ r.start_date = NULL)

\* repo.create(data) when AUTOINCREMENT hands out id: INSERT INTO reminders,
\* is_active stored as 1 unless the body says false
insert(r, id) ==
  LET row == [newReminder(r.is_recurring, r.recurrence, NULL, <<ClockStep>>)
                EXCEPT !.id = id, !.start_date = r.start_date,
                       !.is_active = (r.is_active # FALSE)]
  IN [j \in DOMAIN reminders \cup {id} |->
        IF j = id THEN row ELSE reminders[j]]

\* repo.create(data) on a table from which nothing was ever deleted: the
\* next id is the number of rows plus one
create(r) == insert(r, Cardinality(DOMAIN reminders) + 1)

CreateReminder(r) ==
  /\ Cardinality(DOMAIN reminders) < CrudRows
  /\ IF createRejects(r)
       THEN UNCHANGED <<reminders, qstash>>
       ELSE /\ reminders' = create(r)
            /\ qstash' = IF env.QSTASH_TOKEN
                           THEN qstash \cup
                                  alertCallbacks(
                                    create(r)[Cardinality(DOMAIN reminders) + 1],
                                    clock)
                           ELSE qstash
  /\ UNCHANGED <<clock, env, cycle, hook, dispatched, call>>

InitCrud ==
  /\ reminders = <<>>
  /\ clock = 0
  /\ env = [USE_POLLING |-> TRUE, QSTASH_TOKEN |-> FALSE]
  /\ qstash = {}
  /\ cycle = EmptyBag
  /\ hook = EmptyBag
  /\ dispatched = EmptyBag
  /\ call = NoCall

NextCrud ==
  \/ \E r \in CreateBodies : CreateReminder(r)
  \/ \E id \in 1..CrudRows, data \in UpdateBodies : UpdateReminder(id, data)

SpecCrud == InitCrud /\ [][NextCrud]_vars

----------------------------------------------------------------------------
(* Polling over a table of several reminders, with a storage whose writes  *)
(* may be rejected (client.execute throws)                                 *)

FaultRows == 2         \* rows in the table of the cycles with failing writes

FaultReminders ==
  { newReminder(FALSE, NO_RECURRENCE, NULL, <<Hour, ClockStep>>),
    newReminder(TRUE, HOURLY, Hour, <<ClockStep>>),
    newReminder(TRUE, NOT_A_CRON, NULL, <<ClockStep>>) }

InitFaults ==
  /\ clock \in {ClockStep, Hour, 3 * Hour}
  /\ env = [USE_POLLING |-> TRUE, QSTASH_TOKEN |-> FALSE]
  /\ reminders \in { [id \in 1..FaultRows |-> [f[id] EXCEPT !.id = id]] :
                        f \in [1..FaultRows -> FaultReminders] }
  /\ qstash = {}
  /\ cycle = EmptyBag
  /\ hook = EmptyBag
  /\ dispatched = EmptyBag
  /\ call = NoCall

\* await deactivateReminder(reminder.id) rejects: repo.deactivate throws, and
\* neither processReminder nor checkReminders catches, so the execution of
\* checkReminders ends there, rejected
DeactivateReminderRejects(x) ==
  /\ x.pc = "deactivateReminder"
  /\ cycle' = become(cycle, x, [x EXCEPT !.pc = "rejected"])
  /\ UNCHANGED <<reminders, clock, env, hook, qstash, dispatched, call>>

\* await updateLastAlertTime(reminder.id, now) rejects after the
\* notifications were sent: the execution of checkReminders ends, rejected
UpdateLastAlertTimeRejects(x) ==
  /\ x.pc = "sendNotifications"
  /\ cycle' = become(cycle, x, [x EXCEPT !.pc = "rejected"])
  /\ UNCHANGED <<reminders, clock, env, hook, qstash, dispatched, call>>

NextFaults ==
  \/ Tick
  \/ \E x \in BagToSet(cycle) : GetReminders(x)
  \/ \E x \in BagToSet(cycle) : DeactivateReminder(x)
  \/ \E x \in BagToSet(cycle) : UpdateLastAlertTime(x)
  \/ \E x \in BagToSet(cycle) : DeactivateReminderRejects(x)
  \/ \E x \in BagToSet(cycle) : UpdateLastAlertTimeRejects(x)

SpecFaults == InitFaults /\ [][NextFaults]_vars

----------------------------------------------------------------------------
(* Cleanup: POST /webhooks/cleanup runs cleanupStaleReminders, which reads  *)
(* the active reminders and deactivates those the policy retires, without   *)
(* evaluating alerts.  The one execution in progress is held in call.       *)

CleanupRows == 2       \* rows in the table a cleanup runs over

\* the members of a set of ids in ascending order
RECURSIVE ascending(_)
ascending(S) ==
  IF S = {} THEN <<>>
  ELSE LET m == CHOOSE a \in S : \A b \in S : a <= b
       IN <<m>> \o ascending(S \ {m})

\* SELECT * FROM reminders WHERE is_active = 1
findActive ==
  LET ids == ascending({id \in DOMAIN reminders : reminders[id].is_active})
  IN [k \in 1..Len(ids) |-> reminders[ids[k]]]

\* the cleanup deciding on the alert history alone
cleanupResult_alertedOnly(reminder, now) ==
  IF reminder.is_recurring /\ reminder.recurrence # NO_RECURRENCE
    THEN IF calculateNextEventTime(reminder, now) = NULL
           THEN [shouldDeactivate |-> FALSE, reason |-> "none"]
           ELSE shouldDeactivateRecurring(reminder,
                                          calculateNextEventTime(reminder, now))
    ELSE [shouldDeactivate |-> reminder.last_alert_time # NULL, reason |-> "none"]

\* the body of the loop of cleanupStaleReminders up to its if: continue on a
\* recurrence that does not parse, else the result of the policy
cleanupResult(reminder, now) ==
  IF reminder.is_recurring /\ reminder.recurrence # NO_RECURRENCE
    THEN IF calculateNextEventTime(reminder, now) = NULL
           THEN [shouldDeactivate |-> FALSE, reason |-> "none"]
           ELSE shouldDeactivateRecurring(reminder,
                                          calculateNextEventTime(reminder, now))
    ELSE shouldDeactivateOneTime(reminder, now)

\* the for loop of cleanupStaleReminders from the i-th reminder read: the
\* position of the first reminder it deactivates, 0 if the loop ends
RECURSIVE cleanupLoop(_, _, _)
cleanupLoop(rs, now, i) ==
  IF i > Len(rs) THEN 0
  ELSE IF cleanupResult(rs[i], now).shouldDeactivate THEN i
  ELSE cleanupLoop(rs, now, i + 1)

\* the execution c after the loop has run from position i up to its next
\* await; at the end it returns { deactivated, checked: reminders.length }
cleanupResume(c, now, i) ==
  LET j == cleanupLoop(c.reminders, now, i)
  IN IF j = 0
       THEN [c EXCEPT !.pc = "done", !.now = now, !.i = 0,
                      !.checked = Len(c.reminders)]
       ELSE [c EXCEPT !.pc = "deactivateReminder", !.now = now, !.i = j]

CleanupRunning == call # NoCall /\ call.fn = "cleanupStaleReminders"

\* a request with a valid signature arrives and the storage answers
\* repo.findActive()
WebhookCleanup ==
  /\ call = NoCall \/ (CleanupRunning /\ call.pc = "done")
  /\ call' = [fn |-> "cleanupStaleReminders", pc |-> "findActive",
              reminders |-> findActive, now |-> NULL, i |-> 0,
              deactivated |-> 0, checked |-> 0]
  /\ UNCHANGED <<reminders, clock, env, cycle, hook, qstash, dispatched>>

\* cleanupStaleReminders resumes: const now = new Date(), and the loop runs
\* up to its first await
CleanupFindActive ==
  /\ CleanupRunning
  /\ call.pc = "findActive"
  /\ call' = cleanupResume(call, clock, 1)
  /\ UNCHANGED <<reminders, clock, env, cycle, hook, qstash, dispatched>>

\* await deactivateReminder(reminder.id) completes, deactivated++, and the
\* loop runs on
CleanupDeactivateReminder ==
  /\ CleanupRunning
  /\ call.pc = "deactivateReminder"
  /\ reminders' = deactivate(call.reminders[call.i].id)
  /\ call' = cleanupResume([call EXCEPT !.deactivated = @ + 1],
                           call.now, call.i + 1)
  /\ UNCHANGED <<clock, env, cycle, hook, qstash, dispatched>>

\* rows a cleanup may find: never alerted, alerted, inactive, with and
\* without an end_date, with a recurrence that does not parse
CleanupReminders ==
  LET base == { newReminder(FALSE, NO_RECURRENCE, NULL, <<ClockStep>>),
                newReminder(FALSE, NO_RECURRENCE, NULL, <<>>),
                newReminder(TRUE, HOURLY, Hour, <<ClockStep>>),
                newReminder(TRUE, HOURLY, NULL, <<ClockStep>>),
                newReminder(TRUE, NOT_A_CRON, Hour, <<ClockStep>>) }
  IN { [r EXCEPT !.last_alert_time = t, !.is_active = a] :
         r \in base, t \in {NULL, ClockStep}, a \in BOOLEAN }

InitCleanup ==
  /\ clock \in {0, Hour, 2 * Hour + ClockStep}
  /\ env = [USE_POLLING |-> FALSE, QSTASH_TOKEN |-> TRUE]
  /\ reminders \in { [id \in 1..CleanupRows |-> [f[id] EXCEPT !.id = id]] :
                        f \in [1..CleanupRows -> CleanupReminders] }
  /\ qstash = {}
  /\ cycle = EmptyBag
  /\ hook = EmptyBag
  /\ dispatched = EmptyBag
  /\ call = NoCall

NextCleanup ==
  \/ WebhookCleanup
  \/ CleanupFindActive
  \/ CleanupDeactivateReminder
  \/ Advance

SpecCleanup == InitCleanup /\ [][NextCleanup]_vars

----------------------------------------------------------------------------
(* The repository on its own: any sequence of create, update, deactivate,  *)
(* updateLastAlertTime and delete, on ids that exist and ids that do not.  *)
(* call holds the last operation, what it returned, and the table's        *)
(* AUTOINCREMENT sequence (the largest id handed out so far)               *)

RepoRows == 2          \* reminders created in a run of the repository

RepoIds == 1..(RepoRows + 1)

\* bodies of one-time reminders, with is_active said or left to its default
RepoCreateBodies ==
  { r \in CreateBodies : /\ ~r.is_recurring /\ r.recurrence = NO_RECURRENCE
                         /\ r.start_date = NULL }

\* bodies that define is_active, or nothing
RepoUpdateBodies ==
  { d \in UpdateBodies : DOMAIN d \subseteq {"is_active"} }

RepoTimes == {0, ClockStep}

\* repo.delete(id): DELETE FROM reminders WHERE id = ?
delete(id) == [j \in DOMAIN reminders \ {id} |-> reminders[j]]

\* result.rowsAffected > 0 of a statement with WHERE id = ?
rowsAffected(id) == id \in DOMAIN reminders

repoCall(op, id, data, result, seq) ==
  [fn |-> "repository", op |-> op, id |-> id, data |-> data,
   result |-> result, seq |-> seq]

RepoCreate(r) ==
  /\ call.seq < RepoRows
  /\ reminders' = insert(r, call.seq + 1)
  /\ call' = repoCall("create", call.seq + 1, r, TRUE, call.seq + 1)
  /\ UNCHANGED <<clock, env, cycle, hook, qstash, dispatched>>

\* if (fields.length === 0) return false
RepoUpdate(id, data) ==
  /\ reminders' = update(id, data)
  /\ call' = repoCall("update", id, data,
                      DOMAIN data # {} /\ rowsAffected(id), call.seq)
  /\ UNCHANGED <<clock, env, cycle, hook, qstash, dispatched>>

RepoDeactivate(id) ==
  /\ reminders' = deactivate(id)
  /\ call' = repoCall("deactivate", id, <<>>, rowsAffected(id), call.seq)
  /\ UNCHANGED <<clock, env, cycle, hook, qstash, dispatched>>

RepoUpdateLastAlertTime(id, time) ==
  /\ reminders' = updateLastAlertTime(id, time)
  /\ call' = repoCall("updateLastAlertTime", id, <<>>, rowsAffected(id),
                      call.seq)
  /\ UNCHANGED <<clock, env, cycle, hook, qstash, dispatched>>

RepoDelete(id) ==
  /\ reminders' = delete(id)
  /\ call' = repoCall("delete", id, <<>>, rowsAffected(id), call.seq)
  /\ UNCHANGED <<clock, env, cycle, hook, qstash, dispatched>>

InitRepo ==
  /\ reminders = <<>>
  /\ clock = 0
  /\ env = [USE_POLLING |-> TRUE, QSTASH_TOKEN |-> FALSE]
  /\ qstash = {}
  /\ cycle = EmptyBag
  /\ hook = EmptyBag
  /\ dispatched = EmptyBag
  /\ call = repoCall("none", 0, <<>>, FALSE, 0)

NextRepo ==
  \/ \E r \in RepoCreateBodies : RepoCreate(r)
  \/ \E id \in RepoIds, data \in RepoUpdateBodies : RepoUpdate(id, data)
  \/ \E id \in RepoIds : RepoDeactivate(id)
  \/ \E id \in RepoIds, time \in RepoTimes : RepoUpdateLastAlertTime(id, time)
  \/ \E id \in RepoIds : RepoDelete(id)

SpecRepo == InitRepo /\ [][NextRepo]_vars

----------------------------------------------------------------------------------------------------------------------------------------
(* The scheduler left running: in polling mode the timer keeps firing, and  *)
(* an execution of checkReminders that has returned is gone, so the timer   *)
(* can start the next one; in QStash mode the cleanup schedule registered   *)
(* at start-up keeps calling POST /webhooks/cleanup.  The process may have  *)
(* been started late (after downtime).                                      *)

\* reminders created at instant 0: one-time and recurring ones, with two
\* alerts that are due together at ClockStep, and with no alert at all
LiveReminders ==
  { newReminder(FALSE, NO_RECURRENCE, NULL, <<Hour, ClockStep>>),
    newReminder(FALSE, NO_RECURRENCE, NULL, <<>>),
    newReminder(TRUE, HOURLY, Hour, <<Hour, ClockStep>>),
    newReminder(TRUE, HOURLY, Hour, <<>>),
    newReminder(TRUE, HOURLY, NULL, <<Hour, ClockStep>>) }

InitLive ==
  /\ clock \in {0, 5 * ClockStep}
  /\ env \in {[USE_POLLING |-> TRUE, QSTASH_TOKEN |-> FALSE],
              [USE_POLLING |-> FALSE, QSTASH_TOKEN |-> TRUE]}
  /\ reminders \in { [id \in Ids |-> [f[id] EXCEPT !.id = id]] :
                        f \in [Ids -> LiveReminders] }
  /\ qstash = IF env.QSTASH_TOKEN
                THEN UNION {alertCallbacks(reminders[id], 0) : id \in Ids}
                ELSE {}
  /\ cycle = EmptyBag
  /\ hook = EmptyBag
  /\ dispatched = EmptyBag
  /\ call = NoCall

\* the promise of an execution of checkReminders that has returned settles
Returns(x) ==
  /\ x.pc = "done"
  /\ cycle' = cycle (-) SetToBag({x})
  /\ UNCHANGED <<reminders, clock, env, hook, qstash, dispatched, call>>

\* the cleanup schedule ensureCleanupSchedule registers in QStash mode fires
CleanupSchedule ==
  /\ ~pollingEnabled
  /\ WebhookCleanup

\* the timer, or the cleanup schedule, fires
Fires == Tick \/ CleanupSchedule

\* the query of getReminders() is answered
Answered == \E x \in BagToSet(cycle) : GetReminders(x)

\* an awaited write or transport call of a cycle completes, or the cycle
\* returns
Completes ==
  \E x \in BagToSet(cycle) :
    \/ DeactivateReminder(x)
    \/ UpdateLastAlertTime(x)
    \/ Returns(x)

\* an awaited read or write of the cleanup completes
CleanupCompletes == CleanupFindActive \/ CleanupDeactivateReminder

NextLive ==
  \/ Fires
  \/ Answered
  \/ Completes
  \/ CleanupCompletes
  \/ \E m \in qstash : Webhook(m)
  \/ \E y \in BagToSet(hook) : SendNotifications(y)
  \/ \E y \in BagToSet(hook) : HookUpdateLastAlertTime(y)
  \/ \E y \in BagToSet(hook) : HookDeactivateReminder(y)
  \/ Advance

\* setInterval and the cleanup schedule keep firing, and every awaited
\* storage or transport call completes.  The last conjunct is
\* WF_vars(Answered) written out: Answered is enabled exactly when an
\* execution is at "getReminders", and a step of it always changes cycle
FairLive ==
  /\ WF_vars(Fires)
  /\ WF_vars(Completes)
  /\ WF_vars(CleanupCompletes)
  /\ \/ []<>(~ \E x \in BagToSet(cycle) : x.pc = "getReminders")
     \/ []<><<Answered>>_vars

SpecLive == InitLive /\ [][NextLive]_vars /\ FairLive

----------------------------------------------------------------------------
(* The owner reactivates reminders while the poller runs:                  *)
(* PUT /reminders/:id with {is_active: true}                               *)

ReactivateBodies == { d \in UpdateBodies : DOMAIN d = {"is_active"} /\ d.is_active }

ReactivateReminders ==
  { newReminder(FALSE, NO_RECURRENCE, NULL, <<Hour, ClockStep>>),
    newReminder(FALSE, NO_RECURRENCE, NULL, <<ClockStep>>),
    newReminder(TRUE, HOURLY, Hour, <<ClockStep>>) }

InitReactivate ==
  /\ clock \in {0, Hour}
  /\ env = [USE_POLLING |-> TRUE, QSTASH_TOKEN |-> FALSE]
  /\ reminders \in { [id \in Ids |-> [f[id] EXCEPT !.id = id]] :
                        f \in [Ids -> ReactivateReminders] }
  /\ qstash = {}
  /\ cycle = EmptyBag
  /\ hook = EmptyBag
  /\ dispatched = EmptyBag
  /\ call = NoCall

Reactivate == \E id \in Ids, data \in ReactivateBodies : UpdateReminder(id, data)

NextReactivate ==
  \/ Tick
  \/ Answered
  \/ Completes
  \/ Reactivate
  \/ Advance

\* setInterval keeps firing and every awaited storage or transport call
\* completes; the owner is under no obligation.  The last conjunct is
\* WF_vars(Answered) written out
FairReactivate ==
  /\ WF_vars(Tick)
  /\ WF_vars(Completes)
  /\ \/ []<>(~ \E x \in BagToSet(cycle) : x.pc = "getReminders")
     \/ []<><<Answered>>_vars

SpecReactivate == InitReactivate /\ [][NextReactivate]_vars /\ FairReactivate

----------------------------------------------------------------------------
(* Contact modes of the users: SQLiteModeRepository behind POST /modes and *)
(* PUT /modes/:id.  call holds the modes table with its AUTOINCREMENT       *)
(* sequence, the repository calls in flight (each is suspended at its       *)
(* awaits of client.execute), and the outcome of the call that ended last   *)

ModeRows == 2          \* modes created in a run
ModeRequests == 2      \* repository calls in flight at a time

Users == {"u1", "u2"}
ModeIds == 1..(ModeRows + 1)
Addresses == {"a", "b"}

CreateModeInputs == [address : Addresses, isDefault : BOOLEAN]

\* CreateModeInputSchema.partial(): isDefault defined or not
UpdateModeInputs ==
  { [f \in F |-> r[f]] : r \in [isDefault : BOOLEAN], F \in SUBSET {"isDefault"} }

\* if (input.isDefault)
setsDefault(input) == "isDefault" \in DOMAIN input /\ input.isDefault

\* the rows of a user
modesOf(modes, userId) ==
  [id \in {i \in DOMAIN modes : modes[i].user_id = userId} |-> modes[id]]

\* UPDATE modes SET is_default = 0 WHERE user_id = ?
clearDefaults(modes, userId) ==
  [id \in DOMAIN modes |->
     IF modes[id].user_id = userId
       THEN [modes[id] EXCEPT !.is_default = FALSE]
       ELSE modes[id]]

\* a call of create or update up to its first await; changed tells whether
\* the call has changed a row so far
modeCall(op, id, userId, input) ==
  [op |-> op, id |-> id, userId |-> userId, input |-> input,
   pc |-> IF setsDefault(input) THEN "clearDefaults" ELSE "execute",
   changed |-> FALSE]

\* the call x has ended: it returned the row ("ok") or threw
ended(x, outcome, modes, seq) ==
  [call EXCEPT !.modes = modes, !.seq = seq,
               !.running = call.running \ {x},
               !.last = [op |-> x.op, id |-> x.id, userId |-> x.userId,
                         outcome |-> outcome]]

\* createModeRoute: repository.create(session.user.id, validated)
CreateMode(userId, input) ==
  LET x == modeCall("create", 0, userId, input)
  IN /\ Cardinality(call.running) < ModeRequests
     /\ call.seq + Cardinality({y \in call.running : y.op = "create"}) < ModeRows
     /\ x \notin call.running
     /\ call' = [call EXCEPT !.running = @ \cup {x}]
     /\ UNCHANGED <<reminders, clock, env, cycle, hook, qstash, dispatched>>

\* updateModeRoute: repository.update(id, session.user.id, validated)
UpdateMode(id, userId, input) ==
  LET x == modeCall("update", id, userId, input)
  IN /\ Cardinality(call.running) < ModeRequests
     /\ x \notin call.running
     /\ call' = [call EXCEPT !.running = @ \cup {x}]
     /\ UNCHANGED <<reminders, clock, env, cycle, hook, qstash, dispatched>>

\* await this.clearDefaults(userId) completes
ClearDefaults(x) ==
  /\ x.pc = "clearDefaults"
  /\ call' = [call EXCEPT !.modes = clearDefaults(call.modes, x.userId),
                          !.running = (@ \ {x}) \cup
                            {[x EXCEPT !.pc = "execute",
                                       !.changed = clearDefaults(call.modes, x.userId)
                                                     # call.modes]}]
  /\ UNCHANGED <<reminders, clock, env, cycle, hook, qstash, dispatched>>

\* INSERT INTO modes ... RETURNING *: rejected by UNIQUE(user_id, address),
\* else the row is stored under the next id
InsertMode(x) ==
  /\ x.op = "create" /\ x.pc = "execute"
  /\ IF \E i \in DOMAIN call.modes :
          /\ call.modes[i].user_id = x.userId
          /\ call.modes[i].address = x.input.address
       THEN call' = ended(x, "constraint", call.modes, call.seq)
       ELSE LET id == call.seq + 1
                row == [user_id |-> x.userId, address |-> x.input.address,
                        is_default |-> x.input.isDefault]
            IN call' = ended(x, "ok",
                             [i \in DOMAIN call.modes \cup {id} |->
                                IF i = id THEN row ELSE call.modes[i]],
                             id)
  /\ UNCHANGED <<reminders, clock, env, cycle, hook, qstash, dispatched>>

\* with no field to update, findById(id), "Mode not found" if there is no
\* such row; else UPDATE modes SET ... WHERE id = ? AND user_id = ?
\* RETURNING *, "Mode not found or unauthorized" if no row is returned
UpdateModeRow(x) ==
  /\ x.op = "update" /\ x.pc = "execute"
  /\ IF DOMAIN x.input = {}
       THEN call' = ended(x, IF x.id \in DOMAIN call.modes THEN "ok"
                             ELSE "not found", call.modes, call.seq)
       ELSE IF x.id \in DOMAIN call.modes /\ call.modes[x.id].user_id = x.userId
         THEN call' = ended(x, "ok",
                            [call.modes EXCEPT ![x.id].is_default = x.input.isDefault],
                            call.seq)
         ELSE call' = ended(x, "not found or unauthorized", call.modes, call.seq)
  /\ UNCHANGED <<reminders, clock, env, cycle, hook, qstash, dispatched>>

InitModes ==
  /\ reminders = <<>>
  /\ clock = 0
  /\ env = [USE_POLLING |-> TRUE, QSTASH_TOKEN |-> FALSE]
  /\ qstash = {}
  /\ cycle = EmptyBag
  /\ hook = EmptyBag
  /\ dispatched = EmptyBag
  /\ call = [fn |-> "modes", modes |-> <<>>, seq |-> 0, running |-> {},
             last |-> [op |-> "none", id |-> 0, userId |-> "none",
                       outcome |-> "none"]]

NextModes ==
  \/ \E userId \in Users, input \in CreateModeInputs : CreateMode(userId, input)
  \/ \E id \in ModeIds, userId \in Users, input \in UpdateModeInputs :
       UpdateMode(id, userId, input)
  \/ \E x \in call.running : ClearDefaults(x)
  \/ \E x \in call.running : InsertMode(x)
  \/ \E x \in call.running : UpdateModeRow(x)

SpecModes == InitModes /\ [][NextModes]_vars

----------------------------------------------------------------------------
(* Notification dispatcher: processAlerts for one reminder whose alert is   *)
(* due, sendNotifications over its contacts with transports that may fail, *)
(* and the write of last_alert_time that follows                           *)

MaxContacts == 3       \* length of the contact list of a reminder

Modes == {"email", "telegram", "sms", "push"}

\* what awaiting a transport can give: resolved true, resolved false, rejected
Outcomes == {"sent", "failed", "thrown"}

\* the switch on contact.mode: the transport awaited for the contact, "none"
\* for a mode that is only logged
transportOf(mode, userId) ==
  IF mode = "email" THEN "sendReminderEmail"
  ELSE IF mode = "telegram" THEN "sendTelegramReminder"
  ELSE IF mode = "push" /\ userId # "" THEN "sendPushReminder"
  ELSE "none"

\* an exception of a transport leaving the loop
afterTransport_rethrow(outcome) ==
  IF outcome = "thrown" THEN "throw" ELSE "next"

\* the try/catch around the switch: whatever the transport gives, the loop
\* goes on with the next contact
afterTransport(outcome) == "next"

\* the fire being recorded only if every contact was delivered to
afterSendNotifications_ifDelivered(log) ==
  IF \E n \in 1..Len(log) : log[n].outcome \in {"failed", "thrown"}
    THEN "return"
    ELSE "updateLastAlertTime"

\* processAlerts after await sendNotifications(...): the fire is recorded
afterSendNotifications(log) == "updateLastAlertTime"

\* the for loop of sendNotifications from contact i up to its next await:
\* the contacts only logged are passed over; i = 0 when the loop has ended
RECURSIVE sendNotificationsLoop(_, _, _, _)
sendNotificationsLoop(contacts, userId, i, log) ==
  IF i > Len(contacts) THEN [i |-> 0, log |-> log]
  ELSE IF transportOf(contacts[i], userId) = "none"
    THEN sendNotificationsLoop(contacts, userId, i + 1,
           Append(log, [contact |-> i, transport |-> "none", outcome |-> "logged"]))
    ELSE [i |-> i, log |-> log]

\* the execution after the loop has run on from contact i
notifyResume(x, i, log) ==
  LET l == sendNotificationsLoop(x.reminder.reminders, x.userId, i, log)
  IN IF l.i = 0
       THEN [x EXCEPT !.i = 0, !.log = l.log,
                      !.pc = afterSendNotifications(l.log)]
       ELSE [x EXCEPT !.i = l.i, !.log = l.log, !.pc = "transport"]

NotifyReminders ==
  { [newReminder(FALSE, NO_RECURRENCE, NULL, <<Hour>>) EXCEPT
       !.id = 1, !.reminders = cs] : cs \in SeqsUpTo(Modes, MaxContacts) }

InitNotify ==
  /\ \E r \in NotifyReminders, userId \in {"", "user-1"} :
       /\ processReminder(r, 0).await = "sendNotifications"
       /\ reminders = [id \in {1} |-> r]
       /\ call = [fn |-> "processAlerts", reminder |-> r, now |-> 0,
                  userId |-> userId, pc |-> "sendNotifications", i |-> 0,
                  log |-> <<>>]
  /\ clock = 0
  /\ env = [USE_POLLING |-> TRUE, QSTASH_TOKEN |-> FALSE]
  /\ cycle = EmptyBag
  /\ hook = EmptyBag
  /\ qstash = {}
  /\ dispatched = EmptyBag

\* processAlerts calls sendNotifications, which runs up to its first await
CallSendNotifications ==
  /\ call.fn = "processAlerts"
  /\ call.pc = "sendNotifications"
  /\ call' = notifyResume(call, 1, call.log)
  /\ UNCHANGED <<reminders, clock, env, cycle, hook, qstash, dispatched>>

\* the transport awaited for contact call.i settles, and the loop runs on
TransportSettles(outcome) ==
  /\ call.fn = "processAlerts"
  /\ call.pc = "transport"
  /\ LET log == Append(call.log,
                   [contact |-> call.i,
                    transport |-> transportOf(call.reminder.reminders[call.i],
                                              call.userId),
                    outcome |-> outcome])
     IN call' = IF afterTransport(outcome) = "next"
                  THEN notifyResume(call, call.i + 1, log)
                  ELSE [call EXCEPT !.pc = "thrown", !.log = log]
  /\ UNCHANGED <<reminders, clock, env, cycle, hook, qstash, dispatched>>

\* await updateLastAlertTime(reminder.id, now) completes; processAlerts returns
NotifyUpdateLastAlertTime ==
  /\ call.fn = "processAlerts"
  /\ call.pc = "updateLastAlertTime"
  /\ reminders' = updateLastAlertTime(call.reminder.id, call.now)
  /\ call' = [call EXCEPT !.pc = "done"]
  /\ UNCHANGED <<clock, env, cycle, hook, qstash, dispatched>>

NextNotify ==
  \/ CallSendNotifications
  \/ \E outcome \in Outcomes : TransportSettles(outcome)
  \/ NotifyUpdateLastAlertTime

SpecNotify == InitNotify /\ [][NextNotify]_vars

----------------------------------------------------------------------------
(* Application of one scheduler helper to arguments drawn from small sets *)

MaxAlerts == 2         \* length of the alerts list given to the helpers

HelperOffsets == {0, ClockStep, Hour}
HelperEventTimes == {2 * Hour, 3 * Hour}
HelperNows == {Hour, Hour + INTERVAL_MS, Hour + ClockStep, 2 * Hour,
               2 * Hour + 1, 3 * Hour, 3 * Hour + ClockStep}
HelperLastAlertTimes == {NULL, Hour, Hour + ClockStep, 2 * Hour}

HelperReminders ==
  { [id |-> 1, date |-> 2 * Hour, is_recurring |-> rec,
     recurrence |-> IF rec THEN HOURLY ELSE NO_RECURRENCE,
     start_date |-> IF rec THEN 0 ELSE NULL, end_date |-> NULL,
     alerts |-> mkAlerts(offs), reminders |-> <<"email">>,
     last_alert_time |-> last, is_active |-> TRUE] :
       rec \in BOOLEAN, offs \in SeqsUpTo(HelperOffsets, MaxAlerts),
       last \in HelperLastAlertTimes }

InitHelpers ==
  /\ call \in { [fn |-> "getAlertsToFire", reminder |-> r, eventTime |-> e,
                 now |-> n, intervalMs |-> INTERVAL_MS, done |-> FALSE,
                 result |-> <<>>] :
                  r \in HelperReminders, e \in HelperEventTimes, n \in HelperNows }
  /\ reminders = <<>>
  /\ clock = 0
  /\ env = [USE_POLLING |-> FALSE, QSTASH_TOKEN |-> FALSE]
  /\ cycle = EmptyBag
  /\ hook = EmptyBag
  /\ qstash = {}
  /\ dispatched = EmptyBag

CallGetAlertsToFire ==
  /\ call.fn = "getAlertsToFire"
  /\ ~call.done
  /\ call' = [call EXCEPT !.done = TRUE,
                !.result = getAlertsToFire(call.reminder, call.eventTime,
                                           call.now, call.intervalMs)]
  /\ UNCHANGED <<reminders, clock, env, cycle, hook, qstash, dispatched>>

NextHelpers == CallGetAlertsToFire

SpecHelpers == InitHelpers /\ [][NextHelpers]_vars

----------------------------------------------------------------------------
(* Application of the event-time resolver and of the deactivation policy   *)

PolicyNows == {0, ClockStep, Hour, Hour + 1, 2 * Hour - 1, 2 * Hour,
               2 * Hour + 1, 3 * Hour}
PolicyNextEventTimes == {Hour, 2 * Hour - 1, 2 * Hour, 2 * Hour + 1, 3 * Hour}

PolicyReminders ==
  { [id |-> 1, date |-> Hour, is_recurring |-> rec, recurrence |-> cron,
     start_date |-> IF rec THEN 0 ELSE NULL, end_date |-> end,
     alerts |-> mkAlerts(<<ClockStep>>), reminders |-> <<"email">>,
     last_alert_time |-> last, is_active |-> TRUE] :
       rec \in BOOLEAN,
       cron \in {NO_RECURRENCE, HOURLY, TWO_HOURLY, NOT_A_CRON},
       end \in {NULL, 2 * Hour},
       last \in {NULL, ClockStep, 3 * Hour} }

policyCall(fn, r, e, n) ==
  [fn |-> fn, reminder |-> r, eventTime |-> e, now |-> n,
   intervalMs |-> INTERVAL_MS, done |-> FALSE, result |-> <<>>]

InitPolicy ==
  /\ call \in
       { policyCall("calculateNextEventTime", r, NULL, n) :
           r \in PolicyReminders, n \in PolicyNows }
       \cup { policyCall("shouldDeactivateOneTime", r, NULL, n) :
                 r \in PolicyReminders, n \in PolicyNows }
       \cup { policyCall("shouldDeactivateRecurring", r, e, NULL) :
                 r \in PolicyReminders, e \in PolicyNextEventTimes }
  /\ reminders = <<>>
  /\ clock = 0
  /\ env = [USE_POLLING |-> FALSE, QSTASH_TOKEN |-> FALSE]
  /\ cycle = EmptyBag
  /\ hook = EmptyBag
  /\ qstash = {}
  /\ dispatched = EmptyBag

CallCalculateNextEventTime ==
  /\ call.fn = "calculateNextEventTime"
  /\ ~call.done
  /\ call' = [call EXCEPT !.done = TRUE,
                !.result = calculateNextEventTime(call.reminder, call.now)]
  /\ UNCHANGED <<reminders, clock, env, cycle, hook, qstash, dispatched>>

CallShouldDeactivateOneTime ==
  /\ call.fn = "shouldDeactivateOneTime"
  /\ ~call.done
  /\ call' = [call EXCEPT !.done = TRUE,
                !.result = shouldDeactivateOneTime(call.reminder, call.now)]
  /\ UNCHANGED <<reminders, clock, env, cycle, hook, qstash, dispatched>>

CallShouldDeactivateRecurring ==
  /\ call.fn = "shouldDeactivateRecurring"
  /\ ~call.done
  /\ call' = [call EXCEPT !.done = TRUE,
                !.result = shouldDeactivateRecurring(call.reminder, call.eventTime)]
  /\ UNCHANGED <<reminders, clock, env, cycle, hook, qstash, dispatched>>

NextPolicy ==
  \/ CallCalculateNextEventTime
  \/ CallShouldDeactivateOneTime
  \/ CallShouldDeactivateRecurring

SpecPolicy == InitPolicy /\ [][NextPolicy]_vars

----------------------------------------------------------------------------
(* Application of the alert selector around the edges of its window *)

WindowOffsets == {ClockStep, Hour}
WindowNows == {Hour - 1, Hour, Hour + ClockStep, 2 * Hour - 1, 2 * Hour,
               2 * Hour + 1, 2 * Hour + ClockStep - 1, 2 * Hour + ClockStep,
               3 * Hour}
WindowIntervals == {1000, INTERVAL_MS, 2 * Hour}

WindowReminders ==
  { [id |-> 1, date |-> 2 * Hour, is_recurring |-> rec,
     recurrence |-> IF rec THEN HOURLY ELSE NO_RECURRENCE,
     start_date |-> IF rec THEN 0 ELSE NULL, end_date |-> NULL,
     alerts |-> mkAlerts(offs), reminders |-> <<"email">>,
     last_alert_time |-> last, is_active |-> TRUE] :
       rec \in BOOLEAN, offs \in SeqsUpTo(WindowOffsets, MaxAlerts),
       last \in {NULL, Hour} }

InitWindow ==
  /\ call \in { [fn |-> "getAlertsToFire", reminder |-> r, eventTime |-> 2 * Hour,
                 now |-> n, intervalMs |-> ms, done |-> FALSE, result |-> <<>>] :
                  r \in WindowReminders, n \in WindowNows, ms \in WindowIntervals }
  /\ reminders = <<>>
  /\ clock = 0
  /\ env = [USE_POLLING |-> FALSE, QSTASH_TOKEN |-> FALSE]
  /\ cycle = EmptyBag
  /\ hook = EmptyBag
  /\ qstash = {}
  /\ dispatched = EmptyBag

NextWindow == CallGetAlertsToFire

SpecWindow == InitWindow /\ [][NextWindow]_vars

----------------------------------------------------------------------------
(* Properties of the alert selector *)

\* the alerts of the call that lie in the candidate window
DuePositions ==
  {i \in 1..Len(call.reminder.alerts) :
     isDue(call.reminder.alerts[i], call.eventTime, call.now)}

\* ... and that the idempotency check lets through
RecordedAsAlerted(i) ==
  /\ call.reminder.is_recurring
  /\ call.reminder.last_alert_time # NULL
  /\ call.reminder.last_alert_time >= call.eventTime - call.reminder.alerts[i].time

ResultPositions ==
  {i \in 1..Len(call.reminder.alerts) :
     \E k \in 1..Len(call.result) : call.result[k] = call.reminder.alerts[i]}

Selected == call.fn = "getAlertsToFire" /\ call.done

\* C1 -- Idempotency (recurring): for a recurring reminder, an alert with
\* last_alert_time >= eventTime - offset is never among the alerts returned
\* by getAlertsToFire for that eventTime, whatever now is.
C1_IdempotentRecurring ==
  Selected =>
    \A i \in 1..Len(call.reminder.alerts) :
      RecordedAsAlerted(i) => i \notin ResultPositions

\* a due alert of a recurring reminder is held back by its last_alert_time
\* being exactly the alert's instant, and nothing is returned in its place
C1_Witness ==
  /\ Selected
  /\ call.result = <<>>
  /\ \E i \in DuePositions :
       /\ RecordedAsAlerted(i)
       /\ call.reminder.last_alert_time = call.eventTime - call.reminder.alerts[i].time

\* C2 (as stated) -- the selector returns at most one alert, and exactly one
\* when the reminder has N >= 1 alerts that are all due.
C2_ExactlyOneWhenAllDue ==
  Selected =>
    /\ Len(call.result) <= 1
    /\ (Len(call.reminder.alerts) >= 1
          /\ DuePositions = 1..Len(call.reminder.alerts))
         => Len(call.result) = 1

\* C2 (amended) -- the selector returns at most one alert; when N >= 1 alerts
\* are all due it returns exactly one unless every one of them is recorded as
\* already alerted (recurring reminder, last_alert_time >= its instant), in
\* which case it returns none.
C2_AtMostOnePerCycle ==
  Selected =>
    /\ Len(call.result) <= 1
    /\ (Len(call.reminder.alerts) >= 1
          /\ DuePositions = 1..Len(call.reminder.alerts))
         => (Len(call.result) = 1
               <=> \E i \in DuePositions : ~RecordedAsAlerted(i))

\* several alerts are due at once, none held back, and one is returned
C2_Witness ==
  /\ Selected
  /\ Len(call.reminder.alerts) >= 2
  /\ DuePositions = 1..Len(call.reminder.alerts)
  /\ \A i \in DuePositions : ~RecordedAsAlerted(i)
  /\ Len(call.result) = 1

\* C3 -- Earliest-in-list wins: the alert returned is the one at the smallest
\* list position that is due and not held back by the idempotency check; if
\* there is no such position nothing is returned.
C3_EarliestInListWins ==
  Selected =>
    LET ok == {i \in DuePositions : ~RecordedAsAlerted(i)}
    IN IF ok = {}
         THEN call.result = <<>>
         ELSE call.result =
                <<call.reminder.alerts[CHOOSE i \in ok : \A j \in ok : i <= j]>>

\* two different alerts could fire in the same call and the first one is taken
C3_Witness ==
  /\ Selected
  /\ Cardinality({i \in DuePositions : ~RecordedAsAlerted(i)}) >= 2
  /\ call.reminder.alerts[1].time # call.reminder.alerts[2].time
  /\ call.result = <<call.reminder.alerts[1]>>

----------------------------------------------------------------------------
(* Properties of the orchestrators *)

\* number of dispatches recorded that satisfy P
dispatches(P(_)) ==
  LET ds == {d \in BagToSet(dispatched) : P(d)}
  IN BagCardinality([d \in ds |-> CopiesIn(d, dispatched)])

\* the execution x of checkReminders is waiting on a write or a dispatch for
\* the reminder it read at position x.i
Awaiting(x) == x.pc \in {"deactivateReminder", "sendNotifications"}

\* C4 -- in a deployment that only polls, a (reminder, occurrence, alert)
\* triple of a recurring reminder is dispatched at most once.
C4_TripleDispatchedAtMostOnce ==
  ~env.QSTASH_TOKEN =>
    \A d \in BagToSet(dispatched) :
      (d.via = "poll" /\ reminders[d.reminderId].is_recurring)
        => CopiesIn(d, dispatched) <= 1

\* C5 -- notifications are dispatched for a one-time reminder at most once in
\* its lifetime, by polling cycles and webhook callbacks together.
C5_OneTimeFiresAtMostOnce ==
  \A id \in DOMAIN reminders :
    ~reminders[id].is_recurring =>
      LET ForId(d) == d.reminderId = id
      IN dispatches(ForId) <= 1

\* C6 -- an execution that has read a reminder with is_active = false never
\* dispatches a notification for it and never writes its row: a polling cycle
\* passes over it in its loop without waiting on anything for it, a webhook
\* handler returns at once; every dispatch and every write of a row is made
\* by an execution that read the reminder as active.
C6_InactiveNeverEvaluated ==
  [][ /\ \A x \in BagToSet(cycle') :
           Awaiting(x) => x.reminders[x.i].is_active
      /\ \A y \in BagToSet(hook') :
           y.pc # "done" => (y.reminder # NoRow /\ y.reminder.is_active)
      /\ \A id \in DOMAIN reminders :
           reminders'[id] # reminders[id] =>
             \/ \E x \in BagToSet(cycle) :
                  /\ Awaiting(x)
                  /\ x.reminders[x.i].id = id
                  /\ x.reminders[x.i].is_active
             \/ \E y \in BagToSet(hook) :
                  /\ y.pc \in {"updateLastAlertTime", "deactivateReminder"}
                  /\ y.reminder.id = id
                  /\ y.reminder.is_active
      /\ \A d \in BagToSet(dispatched') :
           CopiesIn(d, dispatched') > CopiesIn(d, dispatched) =>
             \/ /\ d.via = "poll"
                /\ \E x \in BagToSet(cycle') :
                     /\ x.pc = "sendNotifications"
                     /\ x.reminders[x.i].id = d.reminderId
                     /\ x.reminders[x.i].is_active
             \/ /\ d.via = "webhook"
                /\ \E y \in BagToSet(hook') :
                     /\ y.pc = "sendNotifications"
                     /\ y.reminder.id = d.reminderId
                     /\ y.reminder.is_active
    ]_vars

\* a webhook callback has found its reminder inactive and has returned, and
\* a polling cycle has read an inactive reminder that it is about to visit
C6_Witness ==
  /\ \E y \in BagToSet(hook) : y.pc = "done" /\ y.reason = "inactive"
  /\ \E x \in BagToSet(cycle) :
       /\ x.pc = "getReminders"
       /\ \E j \in 1..Len(x.reminders) : ~x.reminders[j].is_active

\* C7 -- no step sets the last_alert_time of a reminder backward.
C7_LastAlertTimeMonotonic ==
  [][ \A id \in DOMAIN reminders :
        reminders'[id].last_alert_time >= reminders[id].last_alert_time ]_vars

\* C8 -- at most one execution of checkReminders is in progress.
C8_NoCycleOverlap ==
  /\ Cardinality(Running) <= 1
  /\ \A x \in Running : CopiesIn(x, cycle) = 1

\* C9 -- an evaluation that is about to write a reminder's row still has the
\* row it read: no other evaluation has written it since.
C9_SerializedPerReminder ==
  /\ \A x \in BagToSet(cycle) :
       Awaiting(x) => reminders[x.reminders[x.i].id] = x.reminders[x.i]
  /\ \A y \in BagToSet(hook) :
       y.pc \in {"sendNotifications", "updateLastAlertTime"} =>
         reminders[y.reminder.id] = y.reminder

\* C10 -- when a webhook handler has fired an alert and records it at instant
\* now, its decision whether to deactivate the reminder is the one the polling
\* cycle takes on the reminder as the fire leaves it (last_alert_time = now).
C10_SameDecisionInBothModes ==
  \A y \in BagToSet(hook) :
    y.pc = "updateLastAlertTime" =>
      LET now == y.time
          fired == [y.reminder EXCEPT !.last_alert_time = now]
      IN webhookDeactivates(y.payload, y.reminder)
           = checkDeactivation(fired, calculateNextEventTime(fired, now),
                               now).shouldDeactivate

----------------------------------------------------------------------------
(* Properties of the deactivation policy and of the event-time resolver *)

\* the helper fn has been applied to the arguments of call
Applied(fn) == call.fn = fn /\ call.done

\* C12 -- One-time terminal property: when last_alert_time is set,
\* shouldDeactivateOneTime answers shouldDeactivate = true, whether now is
\* before, at or after the event time.
C12_OneTimeTerminal ==
  (Applied("shouldDeactivateOneTime") /\ call.reminder.last_alert_time # NULL)
    => call.result.shouldDeactivate

\* a reminder that has alerted is deactivated although its event is still
\* in the future and nothing is stale
C12_Witness ==
  /\ Applied("shouldDeactivateOneTime")
  /\ ~call.reminder.is_recurring
  /\ call.reminder.last_alert_time # NULL
  /\ call.now < call.reminder.date
  /\ call.result.shouldDeactivate

\* C13 -- Staleness boundary: with no last_alert_time, shouldDeactivateOneTime
\* deactivates exactly when now is at least STALE_THRESHOLD + 1 ms after the
\* event time: not at STALE_THRESHOLD exactly, not for any smaller lateness,
\* not for an event in the future.
C13_StalenessBoundary ==
  (Applied("shouldDeactivateOneTime") /\ call.reminder.last_alert_time = NULL)
    => (call.result.shouldDeactivate
          <=> call.now - call.reminder.date >= 3600001)

\* the event is exactly one hour in the past and the reminder is kept
C13_Witness ==
  /\ Applied("shouldDeactivateOneTime")
  /\ call.reminder.last_alert_time = NULL
  /\ call.now - call.reminder.date = 3600000
  /\ ~call.result.shouldDeactivate

\* C14 -- Recurrence exhaustion boundary: for a reminder with a recurrence and
\* an end_date, shouldDeactivateRecurring deactivates exactly when the next
\* occurrence is strictly after end_date; a next occurrence equal to end_date
\* does not deactivate.
C14_ExhaustionBoundary ==
  (/\ Applied("shouldDeactivateRecurring")
   /\ call.reminder.recurrence # NO_RECURRENCE
   /\ call.reminder.end_date # NULL)
    => (call.result.shouldDeactivate
          <=> call.eventTime - call.reminder.end_date >= 1)

\* the next occurrence falls exactly on end_date and the reminder is kept
C14_Witness ==
  /\ Applied("shouldDeactivateRecurring")
  /\ call.reminder.is_recurring
  /\ call.reminder.recurrence # NO_RECURRENCE
  /\ call.reminder.end_date # NULL
  /\ call.eventTime = call.reminder.end_date
  /\ ~call.result.shouldDeactivate

\* C15 -- shouldDeactivateRecurring never deactivates a reminder whose
\* recurrence is absent or whose end_date is absent, whatever nextEventTime is.
C15_OpenEndedNeverDeactivated ==
  (/\ Applied("shouldDeactivateRecurring")
   /\ (call.reminder.recurrence = NO_RECURRENCE \/ call.reminder.end_date = NULL))
    => ~call.result.shouldDeactivate

\* a reminder without recurrence is kept although nextEventTime is past its
\* end_date
C15_Witness ==
  /\ Applied("shouldDeactivateRecurring")
  /\ call.reminder.recurrence = NO_RECURRENCE
  /\ call.reminder.end_date # NULL
  /\ call.eventTime > call.reminder.end_date
  /\ ~call.result.shouldDeactivate

\* C16 -- for a non-recurring reminder calculateNextEventTime answers the
\* instant of reminder.date, whatever now is, also when that instant is past.
C16_OneTimeEventIsDate ==
  (Applied("calculateNextEventTime") /\ ~call.reminder.is_recurring)
    => call.result = call.reminder.date

\* the date of a one-time reminder is answered although it is in the past
C16_Witness ==
  /\ Applied("calculateNextEventTime")
  /\ ~call.reminder.is_recurring
  /\ call.reminder.date < call.now
  /\ call.result = call.reminder.date

\* instants at which the schedules are probed: every half hour and the
\* milliseconds next to it
ProbeInstants ==
  UNION { {k * ClockStep - 1, k * ClockStep, k * ClockStep + 1} : k \in 0..10 }

\* C18 -- for a recurring reminder with a valid cron expression the resolved
\* event time is a schedule instant strictly after now, with no schedule
\* instant between now and it.
C18_NextOccurrenceStrictlyAfterNow ==
  (/\ Applied("calculateNextEventTime")
   /\ call.reminder.is_recurring
   /\ call.reminder.recurrence \in {HOURLY, TWO_HOURLY})
    => /\ call.result > call.now
       /\ cronMatches(call.reminder.recurrence, call.result)
       /\ \A t \in ProbeInstants :
            (call.now < t /\ t < call.result)
              => ~cronMatches(call.reminder.recurrence, t)

\* now is itself a schedule instant, later than the reminder's date, and the
\* following one is answered
C18_Witness ==
  /\ Applied("calculateNextEventTime")
  /\ call.reminder.is_recurring
  /\ call.reminder.recurrence = HOURLY
  /\ call.now = 2 * Hour
  /\ call.now > call.reminder.date
  /\ call.result = 3 * Hour

----------------------------------------------------------------------------
(* Properties of the candidate window of the alert selector *)

\* now - (eventTime - offset) for the alert at position i of the call
diffAt(i) == call.now - (call.eventTime - call.reminder.alerts[i].time)

\* C19 -- Candidate window: an alert is returned only if its diff is in
\* [0, 1 hour); an alert of a one-time reminder whose diff is in that window
\* makes the selector return something; and the result is the same for every
\* value of the evaluation-interval argument.
C19_CandidateWindow ==
  Selected =>
    /\ \A i \in ResultPositions : 0 <= diffAt(i) /\ diffAt(i) < 3600000
    /\ (/\ ~call.reminder.is_recurring
        /\ \E i \in 1..Len(call.reminder.alerts) :
             0 <= diffAt(i) /\ diffAt(i) < 3600000)
         => call.result # <<>>
    /\ \A ms \in WindowIntervals :
         getAlertsToFire(call.reminder, call.eventTime, call.now, ms) = call.result

\* the only alert is exactly one hour overdue and is not returned, with an
\* evaluation interval longer than that
C19_Witness ==
  /\ Selected
  /\ Len(call.reminder.alerts) = 1
  /\ diffAt(1) = 3600000
  /\ call.intervalMs > 3600000
  /\ call.result = <<>>

\* Scenario E: a one-time reminder, never alerted, with alerts of offsets
\* 3600000 and 1800000 in that order, evaluated 30 minutes before its event
ScenarioE ==
  /\ Selected
  /\ ~call.reminder.is_recurring
  /\ call.reminder.last_alert_time = NULL
  /\ Len(call.reminder.alerts) = 2
  /\ call.reminder.alerts[1].time = 3600000
  /\ call.reminder.alerts[2].time = 1800000
  /\ call.eventTime - call.now = 1800000

----------------------------------------------------------------------------
(* Properties of one polling cycle *)

\* the Deactivation Policy triggers for the reminder r that a cycle reads,
\* evaluated at the cycle's instant now
policyTriggers(r, now) ==
  /\ r.is_active
  /\ Len(r.alerts) > 0
  /\ calculateNextEventTime(r, now) # NULL
  /\ checkDeactivation(r, calculateNextEventTime(r, now), now).shouldDeactivate

\* the instant now of execution x and the position its loop has reached
nowOf(x) == IF x.pc = "getReminders" THEN clock ELSE x.now
reached(x) == IF x.pc = "getReminders" THEN 0 ELSE x.i

\* C11 -- in every polling cycle the Deactivation Policy is checked before
\* alert evaluation: notifications are only being sent for a reminder for
\* which the policy did not trigger; the loop never passes over a reminder
\* for which it triggers without deactivating it; the deactivation sets
\* is_active = false, leaves last_alert_time alone and dispatches nothing
\* for the reminder; and, where only polling cycles act on the table, no
\* cycle is evaluating a reminder that has been deactivated.
C11_DeactivationBeforeAlerts ==
  [][ /\ \A y \in BagToSet(cycle') :
           /\ y.pc = "sendNotifications"
                => ~policyTriggers(y.reminders[y.i], y.now)
           /\ y.pc = "deactivateReminder"
                => policyTriggers(y.reminders[y.i], y.now)
           /\ (Awaiting(y) /\ ~env.QSTASH_TOKEN)
                => reminders'[y.reminders[y.i].id].is_active
      /\ \A x \in BagToSet(cycle) :
           CopiesIn(x, cycle') < CopiesIn(x, cycle) =>
             /\ \A y \in BagToSet(cycle') :
                  CopiesIn(y, cycle') > CopiesIn(y, cycle) =>
                    \A j \in 1..Len(x.reminders) :
                      (/\ reached(x) < j
                       /\ (y.pc = "done" \/ j < y.i))
                        => ~policyTriggers(x.reminders[j], nowOf(x))
             /\ x.pc = "deactivateReminder" =>
                  LET id == x.reminders[x.i].id
                  IN /\ reminders' = [reminders EXCEPT ![id].is_active = FALSE]
                     /\ \A d \in BagToSet(dispatched') :
                          d.reminderId = id
                            => CopiesIn(d, dispatched') = CopiesIn(d, dispatched)
    ]_vars

\* the cron expression of the recurring reminder r cannot be parsed
invalidRecurrence(r) ==
  /\ r.is_recurring
  /\ r.recurrence # NO_RECURRENCE
  /\ cronPeriod(r.recurrence) = NULL

\* C17 -- Invalid recurrence is non-fatal: a polling cycle passes over a
\* recurring reminder whose cron expression does not parse: it never waits on
\* a write or a dispatch for it, no step of a cycle changes its row, nothing
\* is dispatched for it by polling, and where only polling acts on the table
\* the reminder stays active and never alerted, so that every later cycle
\* reads and evaluates it again.
C17_InvalidRecurrenceSkipped ==
  [][ /\ \A y \in BagToSet(cycle') :
           Awaiting(y) => ~invalidRecurrence(y.reminders[y.i])
      /\ \A id \in DOMAIN reminders :
           invalidRecurrence(reminders[id]) =>
             /\ cycle' # cycle => reminders'[id] = reminders[id]
             /\ \A d \in BagToSet(dispatched') :
                  d.reminderId = id => d.via # "poll"
             /\ ~env.QSTASH_TOKEN =>
                  /\ reminders'[id].is_active
                  /\ reminders'[id].last_alert_time = NULL
    ]_vars

\* a polling cycle has run to its end over a reminder with an invalid cron
\* expression and the next one has read it, still active and never alerted,
\* at an instant when an alert of it would be due
C17_Witness ==
  /\ ~env.QSTASH_TOKEN
  /\ clock >= ClockStep
  /\ \E x \in BagToSet(cycle) : x.pc = "done"
  /\ \E x \in BagToSet(cycle) :
       /\ x.pc = "getReminders"
       /\ \E j \in 1..Len(x.reminders) :
            invalidRecurrence(x.reminders[j]) /\ x.reminders[j].is_active
  /\ \E id \in DOMAIN reminders :
       /\ invalidRecurrence(reminders[id])
       /\ reminders[id].is_active
       /\ reminders[id].last_alert_time = NULL

----------------------------------------------------------------------------
(* Properties of the webhook handler *)

\* the callback m is delivered in this step
delivered(m) == m \in qstash /\ m \notin qstash'

\* the handler executions that this step brings about
arrived == {y \in BagToSet(hook') : CopiesIn(y, hook') > CopiesIn(y, hook)}

left == {y \in BagToSet(hook) : CopiesIn(y, hook') < CopiesIn(y, hook)}

\* the order of the handler's effects in this step: last_alert_time is
\* written only by a handler whose notifications have been dispatched and
\* sent, is_active only by a handler that has written last_alert_time, and a
\* handler that returns "ok" leaves the reminder with a last_alert_time
handlerOrder ==
  /\ \A id \in DOMAIN reminders \cap DOMAIN reminders' :
       /\ reminders'[id].last_alert_time # reminders[id].last_alert_time =>
            \E y \in left :
              /\ y.pc = "updateLastAlertTime"
              /\ y.reminder.id = id
              /\ reminders'[id].last_alert_time = y.time
              /\ reminders'[id].is_active = reminders[id].is_active
              /\ \E d \in BagToSet(dispatched) :
                   d.via = "webhook" /\ d.reminderId = id
       /\ reminders'[id].is_active # reminders[id].is_active =>
            \E y \in left :
              /\ y.pc = "deactivateReminder"
              /\ y.reminder.id = id
              /\ reminders[id].last_alert_time # NULL
              /\ ~reminders'[id].is_active
  /\ \A y \in left :
       /\ y.pc = "sendNotifications" =>
            \A z \in arrived : z.pc = "updateLastAlertTime"
       /\ y.pc = "updateLastAlertTime" =>
            \A z \in arrived : z.pc = "deactivateReminder" \/ z.status = "ok"
       /\ y.pc = "deactivateReminder" => \A z \in arrived : z.status = "ok"
       /\ (y.reminder.id \in DOMAIN reminders'
             /\ \E z \in arrived : z.pc = "done" /\ z.status = "ok")
            => reminders'[y.reminder.id].last_alert_time # NULL

\* the handler that has written last_alert_time = time goes on to deactivate
\* the reminder exactly if the Deactivation Policy triggers for the reminder
\* as that write leaves it
policyRerun ==
  \A y \in left :
    y.pc = "updateLastAlertTime" =>
      LET fired == [y.reminder EXCEPT !.last_alert_time = y.time]
          triggers == checkDeactivation(fired,
                        calculateNextEventTime(fired, y.time), y.time).shouldDeactivate
      IN \A z \in arrived : (z.pc = "deactivateReminder") = triggers

\* C22 -- a callback for an existing active reminder dispatches the
\* notifications, then persists last_alert_time, then re-runs the
\* Deactivation Policy and persists is_active = false if it triggers; after
\* the handler has returned for a fired alert, last_alert_time is set.
C22_DispatchPersistPolicy ==
  [][handlerOrder /\ policyRerun]_vars

\* the handler execution y returns "ok" in this step
returnsOk(y) ==
  /\ y \in left
  /\ y.pc \in {"updateLastAlertTime", "deactivateReminder"}
  /\ \E z \in arrived : z.pc = "done" /\ z.status = "ok"

\* C23 -- One-time always deactivates post-fire: when the handler returns
\* from a callback it has processed for a reminder it read as active and
\* one-time, that reminder is inactive (if it has not been deleted).
C23_OneTimeInactiveAfterFire ==
  [][ \A y \in BagToSet(hook) :
        (/\ returnsOk(y)
         /\ ~y.reminder.is_recurring
         /\ y.reminder.id \in DOMAIN reminders')
          => ~reminders'[y.reminder.id].is_active ]_vars

\* the recurring reminder r is not exhausted at instant now: its next
\* occurrence does not exceed its end_date
notExhausted(r, now) ==
  /\ r.is_recurring
  /\ r.recurrence # NO_RECURRENCE
  /\ cronPeriod(r.recurrence) # NULL
  /\ ~shouldDeactivateRecurring(r, calculateNextEventTime(r, now)).shouldDeactivate

\* C24 -- a callback for a reminder read as active and recurring, whose next
\* occurrence does not exceed end_date, leaves the reminder active: no step
\* of its handler changes is_active, and the handler never goes on to
\* deactivate.
C24_RecurringStaysActive ==
  [][ \A y \in left :
        (/\ y.pc \in {"sendNotifications", "updateLastAlertTime", "deactivateReminder"}
         /\ notExhausted(y.reminder, IF y.time = NULL THEN clock ELSE y.time))
          => /\ y.pc # "deactivateReminder"
             /\ \A z \in arrived : z.pc # "deactivateReminder"
             /\ y.reminder.id \in DOMAIN reminders \cap DOMAIN reminders'
                  => reminders'[y.reminder.id].is_active
                       = reminders[y.reminder.id].is_active ]_vars

\* a callback has fired for a recurring reminder with an end_date that its
\* next occurrence does not exceed; the handler has returned and the reminder
\* is active, with the fire recorded
C24_Witness ==
  /\ \E y \in BagToSet(hook) : y.pc = "done" /\ y.status = "ok"
  /\ \E d \in BagToSet(dispatched) : d.via = "webhook"
  /\ \E id \in DOMAIN reminders :
       /\ reminders[id].end_date # NULL
       /\ reminders[id].last_alert_time # NULL
       /\ notExhausted(reminders[id], reminders[id].last_alert_time)
       /\ reminders[id].is_active

----------------------------------------------------------------------------
(* Properties of the notification dispatcher *)

\* sendNotifications has returned to processAlerts, or has thrown to it
Notified == call.fn = "processAlerts" /\ call.pc \notin {"sendNotifications", "transport"}

\* C25 -- Dispatcher isolation: sendNotifications goes through the contacts
\* in list order, each one once; when it has returned every contact of the
\* list has been gone through, with the transport of its mode awaited (a
\* mode without transport is logged), whatever the transports of the
\* contacts before it gave; and sendNotifications never throws.
C25_DispatcherIsolation ==
  call.fn = "processAlerts" =>
    /\ call.pc # "thrown"
    /\ \A n \in 1..Len(call.log) :
         /\ call.log[n].contact = n
         /\ call.log[n].transport
              = transportOf(call.reminder.reminders[n], call.userId)
         /\ call.log[n].transport = "none" <=> call.log[n].outcome = "logged"
    /\ call.pc = "transport" => call.i = Len(call.log) + 1
    /\ Notified => Len(call.log) = Len(call.reminder.reminders)

\* the transport of the first contact has thrown, that of the second has
\* failed, and the third contact has been delivered to
C25_Witness ==
  /\ Notified
  /\ Len(call.log) = 3
  /\ call.log[1].outcome = "thrown"
  /\ call.log[2].outcome = "failed"
  /\ call.log[3].outcome = "sent"

\* C26 -- a transport failure does not change the state mutation: when
\* processAlerts is over, the reminder's row is the row read with
\* last_alert_time = now, as after a fire whose deliveries all succeeded
\* (is_active untouched), and no contact's transport was awaited twice.
C26_FailureKeepsMutation ==
  (call.fn = "processAlerts" /\ call.pc \in {"done", "return", "thrown"}) =>
    /\ reminders[call.reminder.id]
         = [call.reminder EXCEPT !.last_alert_time = call.now]
    /\ \A n, k \in 1..Len(call.log) :
         call.log[n].contact = call.log[k].contact => n = k

\* every transport of the fire has failed or thrown, and the fire is recorded
C26_Witness ==
  /\ call.fn = "processAlerts"
  /\ call.pc = "done"
  /\ Len(call.log) >= 2
  /\ \A n \in 1..Len(call.log) : call.log[n].outcome \in {"failed", "thrown"}
  /\ \E n \in 1..Len(call.log) : call.log[n].outcome = "thrown"
  /\ reminders[call.reminder.id].last_alert_time = call.now
  /\ reminders[call.reminder.id].is_active

----------------------------------------------------------------------------
(* Properties of a polling cycle over a failing storage *)

\* C27 -- Per-reminder error isolation: whether the write a cycle awaits for
\* a reminder succeeds or raises an error, the cycle goes on with the
\* reminders after it, up to the next one it has to wait for or to the end of
\* the list; no execution of checkReminders is ever aborted.
C27_CycleNeverAborted ==
  [][ \A x \in BagToSet(cycle) :
        (Awaiting(x) /\ CopiesIn(x, cycle') < CopiesIn(x, cycle)) =>
          \A y \in BagToSet(cycle') :
            CopiesIn(y, cycle') > CopiesIn(y, cycle) =>
              /\ y.pc # "rejected"
              /\ y = resume(x.reminders, x.now, x.i + 1) ]_vars

----------------------------------------------------------------------------
(* Properties of the data model *)

\* C28 -- every stored reminder with is_recurring = true has both recurrence
\* and start_date, in every state reached through the create and update
\* operations.
C28_RecurringHasRecurrenceAndStart ==
  \A id \in DOMAIN reminders :
    reminders[id].is_recurring =>
      /\ reminders[id].recurrence # NO_RECURRENCE
      /\ reminders[id].start_date # NULL

----------------------------------------------------------------------------
(* Properties of the recurrence window *)

\* the stored row of the reminder a dispatch was made for
rowOf(d) == reminders[d.reminderId]

\* C29: a recurring reminder with an end_date never dispatches a notification
\* for an occurrence later than its end_date, in either mode.
C29_NoDispatchPastEndDate ==
  \A d \in BagToSet(dispatched) :
    (rowOf(d).is_recurring /\ rowOf(d).end_date # NULL)
      => d.eventTime <= rowOf(d).end_date

\* C30: a recurring reminder never dispatches a notification for an
\* occurrence that lies before its start_date.
C30_NoDispatchBeforeStartDate ==
  \A d \in BagToSet(dispatched) :
    (rowOf(d).is_recurring /\ rowOf(d).start_date # NULL)
      => d.eventTime >= rowOf(d).start_date

----------------------------------------------------------------------------
(* Properties of polling under a timer that keeps firing *)

\* a dispatch d has been made
Dispatched(d) == BagIn(d, dispatched)

\* an execution is sending the notifications of an alert of reminder id for
\* occurrence e, and alert b of that reminder was due and undelivered in the
\* same evaluation
dueTogether(id, e, b) ==
  \E x \in BagToSet(cycle) :
    /\ x.pc = "sendNotifications"
    /\ x.reminders[x.i].id = id
    /\ LET r == x.reminders[x.i]
           p == processReminder(r, x.now)
       IN /\ p.eventTime = e
          /\ p.alertsToFire[1].id # b
          /\ \E k \in 1..Len(r.alerts) :
               /\ r.alerts[k].id = b
               /\ isDue(r.alerts[k], e, x.now)
               /\ ~hasAlreadyAlertedForEvent(r, e - r.alerts[k].time)

\* C31: when several alerts of a reminder are due in the same cycle and one
\* of them fires, every other alert that was due is fired by some later
\* cycle (a cycle fires an alert only within its candidate window).
C31_RemainingAlertsPickedUp ==
  \A id \in Ids : \A e \in {Hour, 2 * Hour, 3 * Hour} : \A b \in {"1", "2"} :
    dueTogether(id, e, b) ~> Dispatched(dispatch("poll", id, e, b))

------------------------------------------------------------\* reminder id is active
active(id) == reminders[id].is_active

\* reminder id is recurring with a recurrence that parses and an end_date
bounded(id) ==
  /\ reminders[id].is_recurring
  /\ reminders[id].recurrence # NO_RECURRENCE
  /\ cronPeriod(reminders[id].recurrence) # NULL
  /\ reminders[id].end_date # NULL

\* the next occurrence of the bounded reminder id falls after its end_date
exhausted(id) ==
  /\ bounded(id)
  /\ cronNext(reminders[id].recurrence, clock) > reminders[id].end_date

\* reminder id has at least one alert
hasAlerts(id) == Len(reminders[id].alerts) > 0

\* a bounded reminder is deactivated only once it is exhausted
retiredOnlyExhausted ==
  \A id \in Ids :
    (bounded(id) /\ active(id) /\ ~reminders'[id].is_active) => exhausted(id)

\* C32 as stated: an active recurring reminder with an end_date is eventually
\* deactivated once its next occurrence falls after end_date, whether polling
\* ticks or cleanup runs drive the scheduler, and it is not deactivated while
\* its next occurrence is still <= end_date.
C32_ExhaustedEventuallyRetired ==
  /\ \A id \in Ids : (active(id) /\ exhausted(id)) ~> ~active(id)
  /\ [][retiredOnlyExhausted]_vars

\* C32 amended: under polling ticks the reminder must have at least one
\* alert; under cleanup runs any such reminder is retired.
C32_ExhaustedWithAlertsEventuallyRetired ==
  /\ \A id \in Ids :
       (active(id) /\ exhausted(id) /\ (pollingEnabled => hasAlerts(id)))
         ~> ~active(id)
  /\ [][retiredOnlyExhausted]_vars

\* an exhausted reminder with alerts has been retired in polling mode
C32_Witness ==
  \E id \in Ids :
    /\ pollingEnabled
    /\ exhausted(id)
    /\ hasAlerts(id)
    /\ ~active(id)

\* the one-time reminder id never alerted and its event time lies more than
\* STALE_THRESHOLD in the past
stale(id) ==
  /\ ~reminders[id].is_recurring
  /\ reminders[id].last_alert_time = NULL
  /\ clock - reminders[id].date > STALE_THRESHOLD_MS

\* C33 as stated: under polling ticks an active, stale, never alerted
\* one-time reminder is eventually deactivated.
C33_StaleEventuallyRetired ==
  \A id \in Ids : (pollingEnabled /\ active(id) /\ stale(id)) ~> ~active(id)

\* C33 amended: such a reminder with at least one alert is eventually
\* deactivated.
C33_StaleWithAlertsEventuallyRetired ==
  \A id \in Ids :
    (pollingEnabled /\ active(id) /\ stale(id) /\ hasAlerts(id)) ~> ~active(id)

\* a stale reminder with alerts that never alerted has been retired by polling
C33_Witness ==
  \E id \in Ids :
    /\ pollingEnabled
    /\ stale(id)
    /\ hasAlerts(id)
    /\ ~active(id)

----------------------------------------------------------------------------
(* Properties of webhook mode under redelivery *)

\* C34: in webhook mode, repeated or concurrent callbacks for the same
\* (reminder, alert instant) trigger at most one notification dispatch for
\* that (reminder, occurrence, alert) triple.
C34_RedeliveryDispatchesOnce ==
  \A d \in BagToSet(dispatched) :
    d.via = "webhook" => CopiesIn(d, dispatched) <= 1

----------------------------------------------------------------------------
(* Properties of a fire in a polling cycle *)

\* the dispatch the execution x made before it was suspended
fired(x) ==
  LET p == processReminder(x.reminders[x.i], x.now)
  IN dispatch("poll", x.reminders[x.i].id, p.eventTime, p.alertsToFire[1].id)

\* a step of a polling execution that writes reminder id is either the write
\* of an execution that had dispatched for id, which stores its now as
\* last_alert_time and nothing else, or the write of a deactivation
persistsAfterDispatch(id) ==
  (cycle' # cycle /\ reminders'[id] # reminders[id]) =>
    \E x \in BagToSet(cycle) :
      /\ x.pc \in {"sendNotifications", "deactivateReminder"}
      /\ x.reminders[x.i].id = id
      /\ CopiesIn(x, cycle') < CopiesIn(x, cycle)
      /\ \/ /\ x.pc = "sendNotifications"
            /\ Dispatched(fired(x))
            /\ x.now <= clock
            /\ reminders'[id] = [reminders[id] EXCEPT !.last_alert_time = x.now]
         \/ /\ x.pc = "deactivateReminder"
            /\ reminders'[id] = [reminders[id] EXCEPT !.is_active = FALSE]

\* an execution that goes on keeps the now it took when it started
nowCapturedOnce ==
  \A x \in BagToSet(cycle) :
    (x.now # NULL /\ CopiesIn(x, cycle') < CopiesIn(x, cycle)) =>
      \E y \in BagToSet(cycle') :
        /\ CopiesIn(y, cycle') > CopiesIn(y, cycle)
        /\ y.pc = "done" \/ y.now = x.now

\* a dispatch of a polling execution is made with nothing persisted yet for
\* its reminder: the execution is then suspended at sendNotifications
dispatchesFirst ==
  \A d \in BagToSet(dispatched') :
    (d.via = "poll" /\ CopiesIn(d, dispatched') > CopiesIn(d, dispatched)) =>
      /\ reminders'[d.reminderId] = reminders[d.reminderId]
      /\ \E y \in BagToSet(cycle') : y.pc = "sendNotifications" /\ fired(y) = d

\* C35: in a polling cycle, when an alert is selected the notifications are
\* dispatched first and only afterwards last_alert_time is persisted, with
\* the now the cycle captured once; the fire writes nothing else of the
\* reminder.
C35_DispatchThenPersistNow ==
  [][ /\ \A id \in DOMAIN reminders : persistsAfterDispatch(id)
      /\ nowCapturedOnce
      /\ dispatchesFirst ]_vars

\* a polling cycle has fired and persisted its now, which is by now in the
\* past, and the reminder is otherwise as it was created
C35_Witness ==
  /\ env = [USE_POLLING |-> TRUE, QSTASH_TOKEN |-> FALSE]
  /\ \E id \in DOMAIN reminders :
       /\ reminders[id].last_alert_time # NULL
       /\ reminders[id].last_alert_time < clock
       /\ reminders[id].is_active
       /\ \E d \in BagToSet(dispatched) : d.via = "poll" /\ d.reminderId = id

----------------
(* Properties of the cleanup *)

\* the Deactivation Policy at now: one-time, already alerted or more than an
\* hour past due; recurring, the next occurrence exceeds end_date
policyHoldsAt(r, now) ==
  IF r.is_recurring /\ r.recurrence # NO_RECURRENCE
    THEN /\ cronPeriod(r.recurrence) # NULL
         /\ r.end_date # NULL
         /\ cronNext(r.recurrence, now) > r.end_date
    ELSE r.last_alert_time # NULL \/ now - r.date > STALE_THRESHOLD_MS

\* a cleanup has returned
cleanedUp == CleanupRunning /\ call.pc = "done"

\* what holds once cleanupStaleReminders has returned
cleanupOutcome ==
  cleanedUp =>
    /\ call.checked = Len(call.reminders)
    /\ call.deactivated <= call.checked
    /\ call.deactivated =
         Cardinality({k \in 1..Len(call.reminders) :
                        policyHoldsAt(call.reminders[k], call.now)})
    /\ \A k \in 1..Len(call.reminders) :
         LET r == call.reminders[k]
         IN IF policyHoldsAt(r, call.now)
              THEN reminders[r.id] = [r EXCEPT !.is_active = FALSE]
              ELSE reminders[r.id] = r

\* what a step of the cleanup may do
cleanupFrame ==
  /\ dispatched' = dispatched
  /\ (call' # call /\ call'.pc = "findActive") =>
       \A id \in DOMAIN reminders :
         reminders[id].is_active <=>
           \E k \in 1..Len(call'.reminders) : call'.reminders[k] = reminders[id]
  /\ \A id \in DOMAIN reminders :
       \/ reminders'[id] = reminders[id]
       \/ /\ reminders[id].is_active
          /\ reminders'[id] = [reminders[id] EXCEPT !.is_active = FALSE]
          /\ CleanupRunning
          /\ call.pc = "deactivateReminder"
          /\ call.reminders[call.i].id = id
          /\ policyHoldsAt(call.reminders[call.i], call.now)

\* C36: cleanupStaleReminders deactivates exactly the active reminders for
\* which the Deactivation Policy holds at now, skips recurring reminders
\* whose cron does not parse, dispatches nothing, never writes
\* last_alert_time, and returns deactivated <= checked = the number of active
\* reminders read.
C36_CleanupDeactivatesExactlyStale ==
  [](cleanupOutcome) /\ [][cleanupFrame]_vars

\* a cleanup over two active reminders has returned, having deactivated one
\* and skipped one whose recurrence does not parse
C36_Witness ==
  /\ cleanedUp
  /\ call.checked = 2
  /\ call.deactivated = 1
  /\ \E k \in 1..Len(call.reminders) :
       /\ call.reminders[k].recurrence = NOT_A_CRON
       /\ reminders[call.reminders[k].id].is_active

----------------------------------------------------------------------------
(* Properties of the repository under any sequence of its operations       *)

activeIds(table) == { id \in DOMAIN table : table[id].is_active }

othersKept(id) ==
  \A j \in DOMAIN reminders \ {id} :
    j \in DOMAIN reminders' /\ reminders'[j] = reminders[j]

\* what the table holds after the operation recorded in call'
stored ==
  LET id == call'.id
      data == call'.data
  IN CASE call'.op = "create" ->
            /\ id \notin DOMAIN reminders
            /\ DOMAIN reminders' = DOMAIN reminders \cup {id}
            /\ reminders'[id].is_active = (data.is_active # FALSE)
            /\ othersKept(id)
       [] call'.op = "delete" ->
            /\ DOMAIN reminders' = DOMAIN reminders \ {id}
            /\ call'.result = (id \in DOMAIN reminders)
            /\ othersKept(id)
       [] call'.op = "update" ->
            /\ DOMAIN reminders' = DOMAIN reminders
            /\ othersKept(id)
            /\ id \in DOMAIN reminders =>
                 reminders'[id].is_active =
                   IF "is_active" \in DOMAIN data THEN data.is_active
                   ELSE reminders[id].is_active
       [] OTHER -> TRUE

\* deactivate(id) and updateLastAlertTime(id, time) write one field of one
\* row and answer true, or find no row, write nothing and answer false
oneFieldOfOneRow ==
  LET id == call'.id
  IN call'.op \in {"deactivate", "updateLastAlertTime"} =>
       IF id \in DOMAIN reminders
         THEN /\ call'.result
              /\ DOMAIN reminders' = DOMAIN reminders
              /\ othersKept(id)
              /\ \A f \in DOMAIN reminders[id] :
                   \/ reminders'[id][f] = reminders[id][f]
                   \/ f = (IF call'.op = "deactivate" THEN "is_active"
                           ELSE "last_alert_time")
              /\ call'.op = "deactivate" => ~reminders'[id].is_active
         ELSE ~call'.result /\ reminders' = reminders

\* findActive answers the stored rows with is_active, each once, and findAll
\* answers every stored row
viewsAgree ==
  /\ Len(findActive) = Cardinality(activeIds(reminders))
  /\ \A k \in 1..Len(findActive) :
       /\ findActive[k].id \in activeIds(reminders)
       /\ findActive[k] = reminders[findActive[k].id]
  /\ \A id \in activeIds(reminders) :
       \E k \in 1..Len(findActive) : findActive[k].id = id
  /\ \A id \in DOMAIN reminders : findAll[id] = reminders[id]
  /\ DOMAIN findAll = DOMAIN reminders

\* C37: after any sequence of create, update, deactivate,
\* updateLastAlertTime and delete, findActive returns exactly the stored
\* reminders whose is_active is true and findAll every stored reminder;
\* deactivate(id) and updateLastAlertTime(id) change only that field of that
\* reminder, and for an id that does not exist change nothing and return false
C37_RepositoryViewsAndWrites ==
  [][stored /\ oneFieldOfOneRow /\ viewsAgree']_vars

\* a deactivate of an id that was deleted, answered false, with an active
\* row that has alerted still in the table
C37_Witness ==
  /\ call.fn = "repository" /\ call.op = "deactivate"
  /\ call.id \notin DOMAIN reminders /\ ~call.result
  /\ call.id <= call.seq
  /\ \E id \in DOMAIN reminders :
       reminders[id].is_active /\ reminders[id].last_alert_time # NULL

----------------------------------------------------------------------------
(* Properties of the fire of a recurring reminder in a polling cycle       *)

\* the alert of reminder r that dispatch d names
alertOf(r, d) == CHOOSE a \in {r.alerts[k] : k \in DOMAIN r.alerts} : a.id = d.alert

\* the expression of r matches no instant after now and before t
noOccurrenceBetween(r, now, t) ==
  \A k \in 0..(2 * MaxClockSteps) :
    (now < k * ClockStep /\ k * ClockStep < t) =>
      ~cronMatches(r.recurrence, k * ClockStep)

\* C38: for a recurring reminder in polling mode, every alert that fires
\* satisfies alertTime <= now < eventTime, where eventTime is the occurrence
\* strictly after now: an alert of an occurrence is never fired at or after
\* that occurrence's own instant, even when it is less than STALE_THRESHOLD
\* overdue.
C38_RecurringFiresBeforeItsOccurrence ==
  [][ \A d \in BagToSet(dispatched') :
        (d.via = "poll" /\ CopiesIn(d, dispatched') > CopiesIn(d, dispatched)) =>
          \E y \in BagToSet(cycle') :
            /\ y.pc = "sendNotifications"
            /\ CopiesIn(y, cycle') > CopiesIn(y, cycle)
            /\ fired(y) = d
            /\ LET r == y.reminders[y.i]
                   alertTime == d.eventTime - alertOf(r, d).time
               IN (r.is_recurring /\ r.recurrence # NO_RECURRENCE) =>
                    /\ alertTime <= y.now
                    /\ y.now < d.eventTime
                    /\ cronMatches(r.recurrence, d.eventTime)
                    /\ noOccurrenceBetween(r, y.now, d.eventTime) ]_vars

\* an hourly reminder has fired for its second occurrence, from a cycle that
\* ran after the instant of the first, whose alert was never fired
C38_Witness ==
  \E id \in DOMAIN reminders :
    /\ reminders[id].is_recurring /\ reminders[id].recurrence = HOURLY
    /\ Dispatched(dispatch("poll", id, 2 * Hour, "1"))
    /\ ~Dispatched(dispatch("poll", id, Hour, "1"))
    /\ reminders[id].last_alert_time > Hour

----------------------------------------------------------------------------
(* Properties of polling over a reminder the owner reactivates             *)

\* a row of a one-time reminder with alerts that has alerted and is active
firedAndActive(r) ==
  /\ ~r.is_recurring /\ Len(r.alerts) > 0
  /\ r.last_alert_time # NULL /\ r.is_active

\* an execution that read a one-time reminder as alerted and active awaits
\* its deactivation, never a dispatch for it
evaluatedToDeactivate ==
  \A y \in BagToSet(cycle') :
    (/\ CopiesIn(y, cycle') > CopiesIn(y, cycle)
     /\ y.pc \in {"sendNotifications", "deactivateReminder"}
     /\ firedAndActive(y.reminders[y.i])) =>
       /\ y.pc = "deactivateReminder"
       /\ dispatched' = dispatched

\* while the stored row is alerted and active no polling execution that read
\* it so dispatches, and the execution that awaited its deactivation writes
\* is_active = false
deactivatedAgain ==
  \A x \in BagToSet(cycle) :
    (/\ CopiesIn(x, cycle') < CopiesIn(x, cycle)
     /\ x.pc = "deactivateReminder"
     /\ firedAndActive(x.reminders[x.i])) =>
       /\ ~reminders'[x.reminders[x.i].id].is_active
       /\ reminders'[x.reminders[x.i].id].last_alert_time
            = reminders[x.reminders[x.i].id].last_alert_time

\* C39: a one-time reminder with non-empty alerts that has already fired
\* (last_alert_time set) and is reactivated through the update operation is
\* deactivated again by the next polling cycle that evaluates it, with no
\* notification dispatched: the update never clears last_alert_time.
C39_ReactivatedIsDeactivatedAgain ==
  /\ \A id \in Ids : firedAndActive(reminders[id]) ~> ~reminders[id].is_active
  /\ [][evaluatedToDeactivate /\ deactivatedAgain]_vars
  /\ [][\A id \in Ids : reminders[id].last_alert_time # NULL =>
                          reminders'[id].last_alert_time # NULL]_vars

\* a one-time reminder has fired once and was deactivated: an execution still
\* waiting for its query read it so; the owner has reactivated it since, and
\* a later cycle has read it active and alerted and awaits its deactivation
C39_Witness ==
  \E id \in Ids : \E x, z \in BagToSet(cycle) :
    /\ firedAndActive(reminders[id])
    /\ CopiesIn(dispatch("poll", id, Hour, "1"), dispatched) = 1
    /\ x.pc = "getReminders"
    /\ ~x.reminders[id].is_active /\ x.reminders[id].last_alert_time # NULL
    /\ z.pc = "deactivateReminder"
    /\ firedAndActive(z.reminders[z.i])

----------------------------------------------------------------------------
(* Properties of the contact-mode store                                    *)

defaultsOf(modes, userId) ==
  { id \in DOMAIN modes : modes[id].user_id = userId /\ modes[id].is_default }

\* C40: when SQLiteModeRepository.update is called with isDefault = true and
\* fails with "Mode not found or unauthorized", no mode row of the calling
\* user has changed, in particular no default flag has been cleared; and
\* after every successful create or update at most one mode of the user has
\* is_default set.
C40_FailedUpdateLeavesModes ==
  [][ \A x \in call.running :
        (x \notin call'.running /\ x.pc = "execute") =>
          /\ (/\ x.op = "update" /\ setsDefault(x.input)
              /\ call'.last.outcome = "not found or unauthorized") =>
                /\ ~x.changed
                /\ modesOf(call'.modes, x.userId) = modesOf(call.modes, x.userId)
          /\ call'.last.outcome = "ok" =>
               Cardinality(defaultsOf(call'.modes, x.userId)) <= 1 ]_vars

====
